---------------------------- MODULE Spec2Model ----------------------------
(***************************************************************************)
(* A model of the Postgres vector store of langchain/src/vectorstores/pg.ts *)
(* (PGVectorStore, its two extension adapters PGVectorExt / PGEmbeddingExt) *)
(* and of the row-level-security subclass of                                *)
(* examples/.../pg_vectorstore/supabase_lrs.ts, together with the part of   *)
(* a Postgres server and of the pg-promise driver that the store talks to.  *)
(*                                                                          *)
(* SQL text is a sequence of tokens.  Text that the code interpolates       *)
(* as-is (template literals, pg-promise's ":raw" filter) is lexed by the    *)
(* server exactly like the text around it; a value that pg-promise formats  *)
(* (a "$n" placeholder) is one escaped literal token.                       *)
(***************************************************************************)
EXTENDS Integers, Sequences, FiniteSets, TLC

(***************************************************************************)
(* Bounds of the model.                                                     *)
(***************************************************************************)
MaxRows == 2        \* rows the store's table may hold
MaxBatch == 2       \* documents in one addDocuments / addVectors call
MaxK == 2           \* largest k / fetchK of a search
MaxCalls == 2       \* runQuery calls in flight at once

(***************************************************************************)
(* JavaScript scalars: strings, numbers (n + frac/10), null.                *)
(***************************************************************************)
Str(s) == [t |-> "str", s |-> s]
Num(n) == [t |-> "num", n |-> n, frac |-> 0]
Flt(n, f) == [t |-> "num", n |-> n, frac |-> f]
Null == [t |-> "null"]

\* Number.prototype.toString of the numbers of the model.
NumText(v) ==
  IF v.frac = 0 THEN ToString(v.n)
  ELSE ToString(v.n) \o "." \o ToString(v.frac)

\* The numbers whose text a string of the model may spell.
Numbers == {Num(n) : n \in 0..10} \cup {Flt(n, 5) : n \in 0..2}

\* JavaScript truthiness of a scalar (null, 0 and "" are falsy).
Falsy(v) ==
  \/ v.t = "null"
  \/ v.t = "num" /\ v.n = 0 /\ v.frac = 0
  \/ v.t = "str" /\ v.s = ""

(***************************************************************************)
(* util/types: isInt, isFloat, isString.  For a string, parseInt /          *)
(* parseFloat followed by "toString() === value" holds exactly when the     *)
(* string is the canonical text of such a number.                           *)
(***************************************************************************)
isInt(v) ==
  \/ v.t = "num" /\ v.frac = 0
  \/ v.t = "str" /\ \E x \in Numbers : x.frac = 0 /\ NumText(x) = v.s

isFloat(v) ==
  \/ v.t = "num" /\ v.frac # 0
  \/ v.t = "str" /\ \E x \in Numbers : x.frac # 0 /\ NumText(x) = v.s

isString(v) ==
  /\ v.t = "str"
  /\ ~ \E x \in Numbers : NumText(x) = v.s

(***************************************************************************)
(* SQL tokens.  W: a piece of raw SQL text; S: an escaped string literal;   *)
(* N: a numeric literal.                                                    *)
(***************************************************************************)
W(s) == [k |-> "w", s |-> s]
S(s) == [k |-> "s", s |-> s]
N(v) == [k |-> "n", n |-> v.n, frac |-> v.frac]

Raw(ss) == [i \in DOMAIN ss |-> W(ss[i])]

(***************************************************************************)
(* Strings a caller may supply where the code expects an identifier, and    *)
(* how the server's lexer splits them when they arrive as raw text.         *)
(***************************************************************************)
TableName == "documents"
PageContentColumn == "content"

EvilColumnKey == "content = 'hello'); DROP TABLE documents; --"
EvilMetaKey == "b' = '1'); DROP TABLE documents; --"
EvilJoinTable == "some_extra_stuff ON true; DROP TABLE documents; --"
EvilJoinSide == "some_extra_stuff.id; DROP TABLE documents; --"

Lex(s) ==
  CASE s = EvilColumnKey ->
         Raw(<<"content", "=", "'", "hello", "'", ")", ";",
               "DROP", "TABLE", "documents", ";", "--">>)
    [] s = EvilMetaKey ->
         Raw(<<"b", "'", "=", "'", "1", "'", ")", ";",
               "DROP", "TABLE", "documents", ";", "--">>)
    [] s = EvilJoinTable ->
         Raw(<<"some_extra_stuff", "ON", "true", ";",
               "DROP", "TABLE", "documents", ";", "--">>)
    [] s = EvilJoinSide ->
         Raw(<<"some_extra_stuff.id", ";",
               "DROP", "TABLE", "documents", ";", "--">>)
    [] s = "" -> <<>>
    [] OTHER -> <<W(s)>>

(***************************************************************************)
(* pg-promise formatting: a "$n" placeholder becomes one escaped literal,   *)
(* a "$n:raw" placeholder is the string's text, unescaped.                  *)
(***************************************************************************)
FormatValue(v) ==
  CASE v.t = "str" -> <<S(v.s)>>
    [] v.t = "num" -> <<N(v)>>
    [] OTHER -> <<W("null")>>

FormatRaw(s) == Lex(s)

RECURSIVE JoinToks(_, _)
\* Array.prototype.join on SQL fragments.
JoinToks(parts, sep) ==
  IF parts = <<>> THEN <<>>
  ELSE IF Len(parts) = 1 THEN parts[1]
  ELSE parts[1] \o sep \o JoinToks(Tail(parts), sep)

RECURSIVE JoinText(_, _)
\* Array.prototype.join on an array of integers, as text.
JoinText(v, sep) ==
  IF v = <<>> THEN ""
  ELSE IF Len(v) = 1 THEN ToString(v[1])
  ELSE ToString(v[1]) \o sep \o JoinText(Tail(v), sep)


\* What a function of the program hands back: a value, or a thrown error.
Ok(x) == [ok |-> TRUE, val |-> x]
Throw(e) == [ok |-> FALSE, err |-> e]

\* body(v): the value v is named once and used as often as body needs it.
With(v, body(_)) == body(v)

(***************************************************************************)
(* Extension adapters (PostgresEmbeddingExtension and its two subclasses).  *)
(* An adapter is [type, metric, dims].                                      *)
(***************************************************************************)
Metrics == {"cosine", "l2", "manhattan", "inner_product"}
ExtTypes == {"pgvector", "pgembedding"}
Dims == 2

allowedMetrics(type) ==
  IF type = "pgembedding" THEN {"cosine", "l2", "manhattan"}
  ELSE {"cosine", "l2", "inner_product"}

\* Variant: the metric is not validated.
NewExtensionUnchecked(type, metricOpt) ==
  Ok([type |-> type,
      metric |-> IF metricOpt = "undefined" THEN "cosine" ELSE metricOpt,
      dims |-> Dims])

\* The constructor: the metric defaults to cosine and is validated.
NewExtension(type, metricOpt) ==
  LET metric == IF metricOpt = "undefined" THEN "cosine" ELSE metricOpt IN
  IF metric \notin allowedMetrics(type) THEN Throw("Invalid metric")
  ELSE Ok([type |-> type, metric |-> metric, dims |-> Dims])

\* The select list of buildFetchRowsStatement.
SelectStatement(tableName, returns, disambiguate) ==
  IF Len(returns) = 0 THEN <<W("*")>>
  ELSE IF disambiguate
  THEN JoinToks([i \in DOMAIN returns |->
                   Lex(tableName \o "." \o returns[i]) \o <<W("AS")>>
                     \o Lex(returns[i])],
                <<W(",")>>)
  ELSE JoinToks([i \in DOMAIN returns |-> Lex(returns[i])], <<W(",")>>)

\* PGEmbeddingExt.buildFetchRowsStatement / PGVectorExt.buildFetchRowsStatement
buildFetchRowsStatement(ext, vector, tableName, returns, disambiguate) ==
  LET sel == SelectStatement(tableName, returns, disambiguate)
      tail == <<W("AS"), W("\"_distance\""), W("FROM")>> \o Lex(tableName)
  IN
  IF ext.type = "pgembedding"
  THEN LET arrow == CASE ext.metric = "cosine" -> "<=>"
                      [] ext.metric = "l2" -> "<->"
                      [] ext.metric = "manhattan" -> "<~>"
                      [] OTHER -> "throw"
       IN IF arrow = "throw" THEN Throw("Invalid metric")
          ELSE Ok(<<W("SELECT")>> \o sel \o <<W(","), W("embedding"), W(arrow)>>
                    \o FormatRaw("array[" \o JoinText(vector, ",") \o "]")
                    \o tail)
  ELSE LET queryStr == FormatValue(Str("[" \o JoinText(vector, ",") \o "]"))
           embeddingStatement ==
             CASE ext.metric = "cosine" ->
                    Raw(<<"1", "-", "(", "embedding", "<=>">>) \o queryStr
                      \o Raw(<<"::vector", ")">>)
               [] ext.metric = "l2" ->
                    Raw(<<"embedding", "<->">>) \o queryStr
                      \o Raw(<<"::vector">>)
               [] ext.metric = "inner_product" ->
                    Raw(<<"(", "embedding", "<#>">>) \o queryStr
                      \o Raw(<<"::vector", ")", "*", "-1">>)
               [] OTHER -> <<>>
       IN IF embeddingStatement = <<>> THEN Throw("Invalid metric")
          ELSE Ok(<<W("SELECT")>> \o sel \o <<W(",")>> \o embeddingStatement
                    \o tail)

buildEnsureExtensionStatement(ext) ==
  IF ext.type = "pgembedding"
  THEN Raw(<<"CREATE", "EXTENSION", "IF", "NOT", "EXISTS", "embedding", ";">>)
  ELSE Raw(<<"CREATE", "EXTENSION", "IF", "NOT", "EXISTS", "vector", ";">>)

buildDataType(ext) ==
  IF ext.type = "pgembedding" THEN "REAL[]"
  ELSE "vector(" \o ToString(ext.dims) \o ")"

buildInsertionVector(ext, vector) ==
  IF ext.type = "pgembedding" THEN "{" \o JoinText(vector, ",") \o "}"
  ELSE "[" \o JoinText(vector, ",") \o "]"

(***************************************************************************)
(* The filter compiler (PGVectorStore.buildSqlFilterStr).                   *)
(*                                                                          *)
(* A filter object is the sequence of its entries [key, val].  A value is   *)
(* a scalar, an operator object [t |-> "obj", ops |-> <<[op, val], ...>>],  *)
(* an array of filters [t |-> "arr", items |-> <<...>>], or, as an          *)
(* operator's value, a text search value [t |-> "ts", query, type, config]. *)
(***************************************************************************)
Entry(key, val) == [key |-> key, val |-> val]
Obj(ops) == [t |-> "obj", ops |-> ops]
Arr(items) == [t |-> "arr", items |-> items]
OpVal(op, val) == [op |-> op, val |-> val]
TextSearch(query, type, config) ==
  [t |-> "ts", query |-> query, type |-> type, config |-> config]

ComparisonMap(op) ==
  CASE op = "$eq" -> "="
    [] op = "$lt" -> "<"
    [] op = "$lte" -> "<="
    [] op = "$gt" -> ">"
    [] op = "$gte" -> ">="
    [] op = "$not" -> "<>"
    [] op = "$textSearch" -> "@@"
    [] OTHER -> "undefined"

LogicalMap(key) ==
  CASE key = "$and" -> "AND"
    [] key = "$or" -> "OR"
    [] OTHER -> "undefined"

buildTextSearchStatement(param, column) ==
  LET lang == IF param.config = "undefined" THEN "simple" ELSE param.config
      queryOp ==
        CASE param.type = "undefined" -> "to_tsquery"
          [] param.type = "plain" -> "plainto_tsquery"
          [] param.type = "phrase" -> "phraseto_tsquery"
          [] param.type = "websearch" -> "websearch_to_tsquery"
          [] OTHER -> "throw"
  IN IF queryOp = "throw" THEN Throw("Invalid text search type")
     ELSE Ok(<<W("to_tsvector"), W("("), S(lang), W(",")>> \o column
               \o <<W(")"), W("@@"), W(queryOp), W("("), S(lang), W(","),
                    S(param.query), W(")")>>)

buildClause(key, op, value, type) ==
  LET compRaw == ComparisonMap(op)
      myValue == IF value.t = "ts" THEN Str(value.query) ELSE value
      kind == CASE isString(myValue) -> "text"
                [] isInt(myValue) -> "int"
                [] isFloat(myValue) -> "float"
                [] OTHER -> "throw"
      arrow == IF kind = "text" THEN "->>" ELSE "->"
      isContent == key = PageContentColumn
      typeCast == IF ~isContent /\ type = "column" THEN "" ELSE "::" \o kind
      columnKey ==
        IF isContent THEN Lex(PageContentColumn)
        ELSE IF type = "column" THEN Lex(key)
        ELSE <<W("metadata"), W(arrow), W("'")>> \o Lex(key) \o <<W("'")>>
  IN
  IF kind = "throw" THEN Throw("Data type not supported")
  ELSE IF op = "$textSearch"
  THEN IF value.t = "ts" THEN buildTextSearchStatement(value, columnKey)
       ELSE buildTextSearchStatement(
              TextSearch("undefined", "undefined", "undefined"), columnKey)
  ELSE Ok(<<W("(")>> \o columnKey \o <<W(")")>>
            \o Lex(typeCast) \o Lex(compRaw) \o FormatValue(myValue))

RECURSIVE FirstThrow(_)
\* The first thrown error among a sequence of results, if any.
FirstThrow(rs) ==
  IF rs = <<>> THEN Ok(<<>>)
  ELSE IF ~rs[1].ok THEN rs[1]
  ELSE FirstThrow(Tail(rs))

\* Array.prototype.filter(Boolean) on fragments: null and "" are dropped.
FilterBoolean(parts) == SelectSeq(parts, LAMBDA x : x # <<>>)

\* The fragments rs joined with sep, after filter(Boolean) when filtered; the
\* first error thrown while they were built, if any.
JoinResults(rs, sep, filtered) ==
  IF ~FirstThrow(rs).ok THEN FirstThrow(rs)
  ELSE Ok(JoinToks(IF filtered
                   THEN FilterBoolean([i \in DOMAIN rs |-> rs[i].val])
                   ELSE [i \in DOMAIN rs |-> rs[i].val],
                   sep))

\* Object.entries of the value of a key: the operators of an operator
\* object, the fields of a text search value.
OpsOf(value) ==
  IF value.t = "ts"
  THEN <<OpVal("query", Str(value.query))>>
         \o (IF value.type = "undefined" THEN <<>>
             ELSE <<OpVal("type", Str(value.type))>>)
         \o (IF value.config = "undefined" THEN <<>>
             ELSE <<OpVal("config", Str(value.config))>>)
  ELSE value.ops

\* The clauses of one operator object: falsy values are skipped.
OpsClauses(key, ops, type) ==
  [i \in DOMAIN ops |->
     IF ops[i].val.t # "ts" /\ Falsy(ops[i].val) THEN Ok(<<>>)
     ELSE buildClause(key, ops[i].op, ops[i].val, type)]

RECURSIVE recursiveBuild(_, _)
recursiveBuild(filterObj, type) ==
  LET part(e) ==
        IF LogicalMap(e.key) # "undefined"
        THEN IF e.val.t # "arr" THEN Throw("TypeError: ops.map")
             ELSE With(JoinResults([i \in DOMAIN e.val.items |->
                                      recursiveBuild(e.val.items[i], type)],
                                   <<W(LogicalMap(e.key))>>, FALSE),
                       LAMBDA joined :
                         IF ~joined.ok THEN joined
                         ELSE Ok(<<W("(")>> \o joined.val \o <<W(")")>>))
        ELSE IF e.val.t = "null" THEN Throw("TypeError: Object.entries")
        ELSE IF e.val.t \in {"obj", "ts"}
        THEN JoinResults(OpsClauses(e.key, OpsOf(e.val), type),
                         <<W("AND")>>, TRUE)
        ELSE IF e.val.t = "arr" THEN Throw("Data type not supported")
        ELSE buildClause(e.key, "$eq", e.val, type)
  IN JoinResults([i \in DOMAIN filterObj |-> part(filterObj[i])],
                 <<W("AND")>>, TRUE)

\* An optional argument: None when it is undefined.
None == <<>>
Some(x) == <<x>>

\* Variant: the fragment "WHERE " is not turned into null.
buildSqlFilterStrNoNull(filter, type) ==
  IF filter = None THEN Ok(<<>>)
  ELSE With(recursiveBuild(filter[1], type), LAMBDA built :
         IF ~built.ok THEN built
         ELSE Ok(<<W("WHERE")>> \o built.val))

\* The result is Ok(<<>>) for null, Ok(tokens) for a WHERE fragment.
buildSqlFilterStr(filter, type) ==
  IF filter = None THEN Ok(<<>>)
  ELSE With(recursiveBuild(filter[1], type), LAMBDA built :
         IF ~built.ok THEN built
         ELSE IF built.val = <<>> THEN Ok(<<>>)
         ELSE Ok(<<W("WHERE")>> \o built.val))

(***************************************************************************)
(* Joins.  A join is [op, table, on |-> <<[left, right, operator], ...>>].  *)
(***************************************************************************)
JoinOps ==
  {"JOIN", "LEFT JOIN", "RIGHT JOIN", "FULL JOIN", "CROSS JOIN", "INNER JOIN"}

\* The words of a join operator as the server lexes them.
LexOp(op) ==
  CASE op = "LEFT JOIN" -> Raw(<<"LEFT", "JOIN">>)
    [] op = "RIGHT JOIN" -> Raw(<<"RIGHT", "JOIN">>)
    [] op = "FULL JOIN" -> Raw(<<"FULL", "JOIN">>)
    [] op = "CROSS JOIN" -> Raw(<<"CROSS", "JOIN">>)
    [] op = "INNER JOIN" -> Raw(<<"INNER", "JOIN">>)
    [] OTHER -> Lex(op)

\* Variant: the operator of a join is not looked at.
buildJoinStatementUnchecked(statement) ==
  LET onConditions ==
        JoinToks([i \in DOMAIN statement.on |->
                    Lex(statement.on[i].left)
                      \o Lex(IF statement.on[i].operator = "undefined"
                             THEN "=" ELSE statement.on[i].operator)
                      \o Lex(statement.on[i].right)],
                 <<W("AND")>>)
  IN Ok(LexOp(statement.op) \o Lex(statement.table) \o <<W("ON")>>
          \o onConditions)

buildJoinStatement(statement) ==
  IF statement.op \notin JoinOps THEN Throw("Invalid join statement")
  ELSE LET onConditions ==
             JoinToks([i \in DOMAIN statement.on |->
                         Lex(statement.on[i].left)
                           \o Lex(IF statement.on[i].operator = "undefined"
                                  THEN "=" ELSE statement.on[i].operator)
                           \o Lex(statement.on[i].right)],
                      <<W("AND")>>)
       IN Ok(LexOp(statement.op) \o Lex(statement.table) \o <<W("ON")>>
               \o onConditions)

(***************************************************************************)
(* The Postgres server: SQL values and the evaluation of an expression.     *)
(*                                                                          *)
(* SQL values: null, bool, num (n + frac/10), text, unk (a string literal   *)
(* whose type the context decides), json (a jsonb value: a scalar or a map  *)
(* from keys to scalars), vec, key (a distance, kept as the rational        *)
(* num/den that orders like it) and error.                                  *)
(***************************************************************************)
SqlNull == [t |-> "null"]
SqlBool(b) == [t |-> "bool", b |-> b]
SqlNum(n, f) == [t |-> "num", n |-> n, frac |-> f]
SqlText(s) == [t |-> "text", s |-> s]
SqlUnk(s) == [t |-> "unk", s |-> s]
SqlJson(j) == [t |-> "json", j |-> j]
SqlVec(v) == [t |-> "vec", v |-> v]
SqlKey(num, den) == [t |-> "key", num |-> num, den |-> den]
SqlError == [t |-> "error"]

\* The embeddings of the model (no zero vector: cosine is undefined there).
Vectors == {<<1, 0>>, <<0, 1>>, <<1, 1>>}

\* The collation order of the strings that are compared.
StringOrder == <<"", "1", "10", "bye", "hello", "hi">>
StrRank(s) ==
  IF \E i \in DOMAIN StringOrder : StringOrder[i] = s
  THEN CHOOSE i \in DOMAIN StringOrder : StringOrder[i] = s
  ELSE 0

\* Text to number (the server's input conversion), SqlError if it is none.
ParseNum(s) ==
  IF \E x \in Numbers : NumText(x) = s
  THEN LET x == CHOOSE x \in Numbers : NumText(x) = s IN SqlNum(x.n, x.frac)
  ELSE SqlError

\* Text to vector, for the literal format "[..]", "{..}" or "array[..]".
ParseVec(s, open, close) ==
  IF \E v \in Vectors : open \o JoinText(v, ",") \o close = s
  THEN SqlVec(CHOOSE v \in Vectors : open \o JoinText(v, ",") \o close = s)
  ELSE SqlError

Dot(a, b) == a[1] * b[1] + a[2] * b[2]
Abs(x) == IF x < 0 THEN -x ELSE x

\* a <=> b, a <-> b, a <#> b, a <~> b as order keys: the cosine distance
\* 1 - c is ordered by -sgn(c)c^2, the Euclidean distance by its square.
Distance(op, a, b) ==
  CASE op = "<=>" -> SqlKey(-(Dot(a, b) * Abs(Dot(a, b))), Dot(a, a) * Dot(b, b))
    [] op = "<->" -> SqlKey((a[1] - b[1]) * (a[1] - b[1])
                              + (a[2] - b[2]) * (a[2] - b[2]), 1)
    [] op = "<#>" -> SqlKey(-Dot(a, b), 1)
    [] OTHER -> SqlKey(Abs(a[1] - b[1]) + Abs(a[2] - b[2]), 1)

KeyLeq(x, y) == x.num * y.den <= y.num * x.den

Tenths(v) == v.n * 10 + v.frac

\* The two sides of a comparison brought to one type.
Coerce(a, b) ==
  CASE a.t = "unk" /\ b.t = "num" -> ParseNum(a.s)
    [] a.t = "unk" -> SqlText(a.s)
    [] OTHER -> a

\* a op b for two numbers or two texts.
Ordered(op, a, b) ==
  LET lt == IF a.t = "num" THEN Tenths(a) < Tenths(b)
            ELSE StrRank(a.s) < StrRank(b.s)
  IN SqlBool(CASE op = "=" -> a = b
               [] op = "<>" -> a # b
               [] op = "<" -> lt
               [] op = "<=" -> lt \/ a = b
               [] op = ">" -> ~lt /\ a # b
               [] OTHER -> ~lt)

Compare(op, x, y) ==
  With(Coerce(x, y), LAMBDA a : With(Coerce(y, x), LAMBDA b :
    IF a.t = "error" \/ b.t = "error" THEN SqlError
    ELSE IF a.t = "null" \/ b.t = "null" THEN SqlNull
    ELSE IF a.t # b.t \/ a.t \notin {"num", "text"} THEN SqlError
    ELSE Ordered(op, a, b)))

\* jsonb -> key and jsonb ->> key
JsonGet(op, a, b) ==
  IF a.t = "null" \/ b.t = "null" THEN SqlNull
  ELSE IF a.t # "json" \/ b.t \notin {"unk", "text"} THEN SqlError
  ELSE IF a.j.t # "map" \/ b.s \notin DOMAIN a.j.m THEN SqlNull
  ELSE LET x == a.j.m[b.s] IN
       IF op = "->" THEN SqlJson(x)
       ELSE IF x.t = "null" THEN SqlNull
       ELSE IF x.t = "str" THEN SqlText(x.s)
       ELSE SqlText(NumText(x))

Logic(op, a, b) ==
  IF a.t \notin {"bool", "null"} \/ b.t \notin {"bool", "null"} THEN SqlError
  ELSE IF op = "AND"
  THEN IF (a.t = "bool" /\ ~a.b) \/ (b.t = "bool" /\ ~b.b) THEN SqlBool(FALSE)
       ELSE IF a.t = "null" \/ b.t = "null" THEN SqlNull
       ELSE SqlBool(TRUE)
  ELSE IF (a.t = "bool" /\ a.b) \/ (b.t = "bool" /\ b.b) THEN SqlBool(TRUE)
       ELSE IF a.t = "null" \/ b.t = "null" THEN SqlNull
       ELSE SqlBool(FALSE)

Arith(op, a, b) ==
  IF a.t = "null" \/ b.t = "null" THEN SqlNull
  ELSE IF a.t = "num" /\ b.t = "key" /\ op = "-" THEN SqlKey(-b.num, b.den)
  ELSE IF a.t = "key" /\ b.t = "num" /\ op = "*" /\ b.n < 0
  THEN SqlKey(-a.num, a.den)
  ELSE SqlError

ApplyBinary(op, a, b) ==
  IF a.t = "error" \/ b.t = "error" THEN SqlError
  ELSE CASE op \in {"AND", "OR"} -> Logic(op, a, b)
         [] op \in {"=", "<>", "<", "<=", ">", ">="} -> Compare(op, a, b)
         [] op \in {"->", "->>"} -> JsonGet(op, a, b)
         [] op \in {"<=>", "<->", "<#>", "<~>"} ->
              IF a.t = "null" \/ b.t = "null" THEN SqlNull
              ELSE IF a.t = "vec" /\ b.t = "vec" THEN Distance(op, a.v, b.v)
              ELSE SqlError
         [] op = "@@" ->
              IF a.t = "null" \/ b.t = "null" THEN SqlNull
              ELSE IF a.t = "tsvector" /\ b.t = "tsquery"
              THEN SqlBool(b.s = a.s)
              ELSE SqlError
         [] OTHER -> Arith(op, a, b)

\* A number rounded to an integer.
RoundNum(x) == SqlNum(x.n + (IF x.frac >= 5 THEN 1 ELSE 0), 0)

ApplyCast(cast, a) ==
  IF a.t \in {"null", "error"} THEN a
  ELSE CASE cast = "::text" ->
              CASE a.t \in {"text", "unk"} -> SqlText(a.s)
                [] a.t = "num" -> SqlText(NumText(a))
                [] a.t = "json" /\ a.j.t = "num" -> SqlText(NumText(a.j))
                [] a.t = "json" /\ a.j.t = "str" ->
                     SqlText("\"" \o a.j.s \o "\"")
                [] OTHER -> SqlError
         [] cast = "::float" ->
              CASE a.t \in {"text", "unk"} -> ParseNum(a.s)
                [] a.t = "num" -> a
                [] a.t = "json" /\ a.j.t = "num" -> SqlNum(a.j.n, a.j.frac)
                [] OTHER -> SqlError
         [] cast = "::int" ->
              CASE a.t \in {"text", "unk"} ->
                     With(ParseNum(a.s), LAMBDA n :
                       IF n.t = "num" /\ n.frac = 0 THEN n ELSE SqlError)
                [] a.t = "num" -> RoundNum(a)
                [] a.t = "json" /\ a.j.t = "num" -> RoundNum(a.j)
                [] OTHER -> SqlError
         [] cast = "::vector" ->
              CASE a.t \in {"text", "unk"} -> ParseVec(a.s, "[", "]")
                [] a.t = "vec" -> a
                [] OTHER -> SqlError
         [] OTHER -> SqlError

(***************************************************************************)
(* The server's lexer: quotes in raw text delimit a string literal, "--"    *)
(* outside a literal starts a comment that runs to the end of the text      *)
(* (the query texts of the store are one line).                             *)
(***************************************************************************)
RECURSIVE JoinStrings(_, _)
JoinStrings(toks, sep) ==
  IF toks = <<>> THEN ""
  ELSE IF Len(toks) = 1 THEN toks[1].s
  ELSE toks[1].s \o sep \o JoinStrings(Tail(toks), sep)

IsW(tok, s) == tok.k = "w" /\ tok.s = s

\* The least position >= i of the raw token s, or 0.
Find(toks, i, s) ==
  IF \E j \in i..Len(toks) : IsW(toks[j], s)
  THEN CHOOSE j \in i..Len(toks) :
         IsW(toks[j], s) /\ \A h \in i..(j - 1) : ~IsW(toks[h], s)
  ELSE 0

\* The number of quote tokens before position i.
QuotesBefore(toks, i) ==
  Cardinality({j \in 1..(i - 1) : IsW(toks[j], "'")})

LexSql(toks, i) ==
  LET starts == {j \in i..Len(toks) :
                   IsW(toks[j], "--") /\ QuotesBefore(toks, j) % 2 = 0}
      stop == IF starts = {} THEN Len(toks)
              ELSE (CHOOSE j \in starts : \A h \in starts : j <= h) - 1
      text == SubSeq(toks, i, stop)
      open(j) == IsW(text[j], "'") /\ QuotesBefore(text, j) % 2 = 0
      literal(j) == S(JoinStrings(SubSeq(text, j + 1,
                                         Find(text, j + 1, "'") - 1), " "))
      kept == SelectSeq([j \in DOMAIN text |-> j],
                        LAMBDA j : QuotesBefore(text, j) % 2 = 0)
  IN IF QuotesBefore(text, Len(text) + 1) % 2 = 1
     THEN Throw("unterminated quoted string")
     ELSE Ok([x \in DOMAIN kept |->
                IF open(kept[x]) THEN literal(kept[x]) ELSE text[kept[x]]])

\* The statements of one query text, split at ";" (empty ones dropped).
SplitStatements(toks) ==
  LET ends == SelectSeq([j \in 1..(Len(toks) + 1) |-> j],
                        LAMBDA j : j = Len(toks) + 1 \/ IsW(toks[j], ";"))
      piece(x) == SubSeq(toks, IF x = 1 THEN 1 ELSE ends[x - 1] + 1,
                         ends[x] - 1)
  IN SelectSeq([x \in DOMAIN ends |-> piece(x)], LAMBDA st : st # <<>>)

(***************************************************************************)
(* The server's expression grammar, parsed and evaluated in one pass over   *)
(* the tokens from position p, in the row environment env (column           *)
(* reference -> value).  Binding strength, weakest first: OR, AND,          *)
(* comparison, other operators, + -, * /, then the postfix cast.            *)
(* A result is [ok, p, v]: p is the position after the expression.          *)
(***************************************************************************)
EOFToken == W("<end>")
TokAt(toks, p) == IF p >= 1 /\ p <= Len(toks) THEN toks[p] ELSE EOFToken

BinLevel(tok) ==
  IF tok.k # "w" THEN 0
  ELSE CASE tok.s = "OR" -> 1
         [] tok.s = "AND" -> 2
         [] tok.s \in {"=", "<>", "<", "<=", ">", ">="} -> 3
         [] tok.s \in {"->", "->>", "<=>", "<->", "<#>", "<~>", "@@"} -> 4
         [] tok.s \in {"+", "-"} -> 5
         [] tok.s \in {"*", "/"} -> 6
         [] OTHER -> 0

Casts == {"::text", "::int", "::float", "::vector"}
TsQueryFunctions ==
  {"to_tsquery", "plainto_tsquery", "phraseto_tsquery", "websearch_to_tsquery"}

Parsed(p, v) == [ok |-> TRUE, p |-> p, v |-> v]
ParseFail == [ok |-> FALSE, p |-> 0, v |-> SqlError]

RECURSIVE PExpr(_, _, _, _)
RECURSIVE PLoop(_, _, _, _)
RECURSIVE PCasts(_, _)
RECURSIVE PPrimary(_, _, _)
RECURSIVE PCall(_, _, _)

\* f(a, b): the text search functions, given the parsed arguments.
Called(f, a, b) ==
  IF a.v.t \notin {"unk", "text"} THEN ParseFail
  ELSE IF b.v.t = "null" THEN Parsed(b.p + 1, SqlNull)
  ELSE IF b.v.t \notin {"unk", "text"} THEN ParseFail
  ELSE Parsed(b.p + 1, [t |-> IF f = "to_tsvector" THEN "tsvector"
                              ELSE "tsquery",
                        s |-> b.v.s])

PCall(toks, p, env) ==
  With(PExpr(toks, p + 2, env, 1), LAMBDA a :
    IF ~a.ok \/ ~IsW(TokAt(toks, a.p), ",") THEN ParseFail
    ELSE With(PExpr(toks, a.p + 1, env, 1), LAMBDA b :
           IF ~b.ok \/ ~IsW(TokAt(toks, b.p), ")") THEN ParseFail
           ELSE Called(toks[p].s, a, b)))

\* A word that is a literal or a column reference.
PWord(tok, p, env) ==
  IF tok.s = "true" THEN Parsed(p + 1, SqlBool(TRUE))
  ELSE IF tok.s = "false" THEN Parsed(p + 1, SqlBool(FALSE))
  ELSE IF tok.s = "null" THEN Parsed(p + 1, SqlNull)
  ELSE IF tok.s = "-1" THEN Parsed(p + 1, SqlNum(-1, 0))
  ELSE With(ParseNum(tok.s), LAMBDA n :
    IF n.t = "num" THEN Parsed(p + 1, n)
    ELSE With(ParseVec(tok.s, "array[", "]"), LAMBDA v :
      IF v.t = "vec" THEN Parsed(p + 1, v)
      ELSE IF tok.s \in DOMAIN env /\ env[tok.s].t # "ambiguous"
      THEN Parsed(p + 1, env[tok.s])
      ELSE ParseFail))

PPrimary(toks, p, env) ==
  With(TokAt(toks, p), LAMBDA tok :
    IF tok.k = "s" THEN Parsed(p + 1, SqlUnk(tok.s))
    ELSE IF tok.k = "n" THEN Parsed(p + 1, SqlNum(tok.n, tok.frac))
    ELSE IF tok.k # "w" THEN ParseFail
    ELSE IF tok.s = "("
    THEN With(PExpr(toks, p + 1, env, 1), LAMBDA e :
           IF e.ok /\ IsW(TokAt(toks, e.p), ")") THEN Parsed(e.p + 1, e.v)
           ELSE ParseFail)
    ELSE IF tok.s \in TsQueryFunctions \cup {"to_tsvector"}
    THEN IF IsW(TokAt(toks, p + 1), "(") THEN PCall(toks, p, env)
         ELSE ParseFail
    ELSE PWord(tok, p, env))

PCasts(toks, left) ==
  IF ~left.ok THEN left
  ELSE With(TokAt(toks, left.p), LAMBDA tok :
    IF tok.k = "w" /\ tok.s \in Casts
    THEN With(ApplyCast(tok.s, left.v), LAMBDA v :
           IF v.t = "error" THEN ParseFail
           ELSE PCasts(toks, Parsed(left.p + 1, v)))
    ELSE left)

PLoop(toks, left, env, lvl) ==
  IF ~left.ok THEN left
  ELSE With(TokAt(toks, left.p), LAMBDA tok :
    IF BinLevel(tok) = 0 \/ BinLevel(tok) < lvl THEN left
    ELSE With(PExpr(toks, left.p + 1, env, BinLevel(tok) + 1), LAMBDA right :
      IF ~right.ok THEN ParseFail
      ELSE With(ApplyBinary(tok.s, left.v, right.v), LAMBDA v :
             IF v.t = "error" THEN ParseFail
             ELSE PLoop(toks, Parsed(right.p, v), env, lvl))))

PExpr(toks, p, env, lvl) ==
  PLoop(toks, PCasts(toks, PPrimary(toks, p, env)), env, lvl)

(***************************************************************************)
(* The database: installed extensions, tables (columns and rows), indexes   *)
(* and the counter behind uuid_generate_v4().  A row maps each column to a  *)
(* SQL value.                                                               *)
(***************************************************************************)
Qual(t, c) == t \o "." \o c

\* The row environment of one row of table t: col and t.col.
EnvOf(t, row) ==
  [x \in DOMAIN row \cup {Qual(t, c) : c \in DOMAIN row} |->
     IF x \in DOMAIN row THEN row[x]
     ELSE row[CHOOSE c \in DOMAIN row : Qual(t, c) = x]]

\* Two row environments side by side: a name both have is ambiguous.
MergeEnv(a, b) ==
  [x \in DOMAIN a \cup DOMAIN b |->
     IF x \in DOMAIN a /\ x \in DOMAIN b THEN [t |-> "ambiguous"]
     ELSE IF x \in DOMAIN a THEN a[x] ELSE b[x]]

NullEnv(env) == [x \in DOMAIN env |-> SqlNull]

ColumnNames(table) == {table.cols[i].name : i \in DOMAIN table.cols}
NullRow(table) == [c \in ColumnNames(table) |-> SqlNull]

IsTable(db, tok) == tok.k = "w" /\ tok.s \in DOMAIN db.tables

(***************************************************************************)
(* SELECT list FROM t [join]... [WHERE e] [ORDER BY "_distance"] [LIMIT n]  *)
(***************************************************************************)
JoinWords == {"LEFT", "RIGHT", "FULL", "INNER", "CROSS"}

RECURSIVE ParseJoins(_, _, _, _)
\* The joins from position p on: [ok, p, env, joins |-> <<[op, table, cond]>>]
\* where cond is the position of the ON condition; env is the probe (all
\* columns null) environment of the joined row.
ParseJoins(db, st, p, env) ==
  LET tok == TokAt(st, p)
      two == tok.k = "w" /\ tok.s \in JoinWords /\ IsW(TokAt(st, p + 1), "JOIN")
      q == IF two THEN p + 2 ELSE p + 1
      op == IF two THEN tok.s ELSE "INNER"
      bad == [ok |-> FALSE, p |-> p, env |-> env, joins |-> <<>>]
  IN
  IF ~two /\ ~IsW(tok, "JOIN")
  THEN [ok |-> TRUE, p |-> p, env |-> env, joins |-> <<>>]
  ELSE IF ~IsTable(db, TokAt(st, q)) \/ op = "CROSS"
            \/ ~IsW(TokAt(st, q + 1), "ON")
  THEN bad
  ELSE With(MergeEnv(env, EnvOf(st[q].s, NullRow(db.tables[st[q].s]))),
            LAMBDA env2 :
         With(PExpr(st, q + 2, env2, 1), LAMBDA cond :
           IF ~cond.ok THEN bad
           ELSE With(ParseJoins(db, st, cond.p, env2), LAMBDA rest :
                  IF ~rest.ok THEN bad
                  ELSE [rest EXCEPT !.joins =
                          <<[op |-> op, table |-> st[q].s, cond |-> q + 2]>>
                            \o @])))

\* The selected items <<[alias, from, to]>> of the select list st[2..last].
RECURSIVE ParseItems(_, _, _)
ParseItems(st, p, last) ==
  IF p > last THEN <<>>
  ELSE With(Find(st, p, ","), LAMBDA c :
    With(IF c = 0 \/ c > last THEN last ELSE c - 1, LAMBDA stop :
      LET aliased == stop - p >= 2 /\ IsW(st[stop - 1], "AS")
          item == [alias |-> IF st[stop].k = "w" THEN st[stop].s ELSE "?",
                   from |-> p,
                   to |-> IF aliased THEN stop - 2 ELSE stop]
      IN IF stop = last THEN <<item>>
         ELSE <<item>> \o ParseItems(st, stop + 2, last)))

Unquote(s) == IF s = "\"_distance\"" THEN "_distance" ELSE s

\* Whether the expression st[from..to] is well formed in env, and its value.
EvalRange(st, from, to, env) ==
  With(PExpr(SubSeq(st, 1, to), from, env, 1), LAMBDA e :
    IF e.ok /\ e.p = to + 1 THEN e.v ELSE SqlError)

\* What follows the WHERE clause: [ORDER BY "_distance"] [LIMIT n], and the
\* select list.
ShapeTail(st, table, from, js, hasWhere, where, items) ==
  LET hasOrder == IsW(TokAt(st, where.p), "ORDER")
      afterOrder == IF hasOrder THEN where.p + 3 ELSE where.p
      hasLimit == IsW(TokAt(st, afterOrder), "LIMIT")
      bad == [ok |-> FALSE]
  IN
  IF hasOrder /\ ~(IsW(TokAt(st, where.p + 1), "BY")
                   /\ IsW(TokAt(st, where.p + 2), "\"_distance\""))
  THEN bad
  ELSE IF hasLimit /\ TokAt(st, afterOrder + 1).k # "n" THEN bad
  ELSE IF (IF hasLimit THEN afterOrder + 2 ELSE afterOrder) # Len(st) + 1
  THEN bad
  ELSE IF \E i \in DOMAIN items :
            EvalRange(st, items[i].from, items[i].to, js.env).t = "error"
  THEN bad
  ELSE IF hasOrder /\ ~\E i \in DOMAIN items : items[i].alias = "\"_distance\""
  THEN bad
  ELSE [ok |-> TRUE, table |-> table, joins |-> js.joins,
        where |-> IF hasWhere THEN js.p + 1 ELSE 0,
        ordered |-> hasOrder,
        limit |-> IF hasLimit THEN st[afterOrder + 1].n ELSE -1,
        items |-> items]

\* The shape of a SELECT statement, found with every column null.
SelectShape(db, st) ==
  With(Find(st, 2, "FROM"), LAMBDA from :
    IF from = 0 \/ from = 2 \/ ~IsTable(db, TokAt(st, from + 1))
    THEN [ok |-> FALSE]
    ELSE With(ParseJoins(db, st, from + 2,
                         EnvOf(st[from + 1].s,
                               NullRow(db.tables[st[from + 1].s]))),
              LAMBDA js :
           IF ~js.ok THEN [ok |-> FALSE]
           ELSE With(IsW(TokAt(st, js.p), "WHERE"), LAMBDA hasWhere :
             With(IF hasWhere THEN PExpr(st, js.p + 1, js.env, 1)
                  ELSE Parsed(js.p, SqlNull),
                  LAMBDA where :
                    IF ~where.ok THEN [ok |-> FALSE]
                    ELSE With(ParseItems(st, 2, from - 1), LAMBDA items :
                           ShapeTail(st, st[from + 1].s, from, js, hasWhere,
                                     where, items))))))

\* The rows of the join j of the rows lefts, given the value hits[x] of the
\* ON condition on the x-th pair (nested-loop order).
Joined(db, j, lefts, rights, pairs, hits) ==
  LET renv(k) == EnvOf(j.table, rights[k])
      matched == SelectSeq([x \in DOMAIN pairs |-> x],
                           LAMBDA x : hits[x].v = SqlBool(TRUE))
      loneLeft == SelectSeq([i \in DOMAIN lefts |-> i], LAMBDA i :
                    \A x \in DOMAIN pairs :
                      pairs[x].i = i => hits[x].v # SqlBool(TRUE))
      loneRight == SelectSeq([k \in DOMAIN rights |-> k], LAMBDA k :
                     \A x \in DOMAIN pairs :
                       pairs[x].k = k => hits[x].v # SqlBool(TRUE))
      nullRight == NullEnv(EnvOf(j.table, NullRow(db.tables[j.table])))
  IN
  IF \E x \in DOMAIN pairs : ~hits[x].ok THEN Throw("join condition")
  ELSE Ok([x \in DOMAIN matched |->
             MergeEnv(lefts[pairs[matched[x]].i], renv(pairs[matched[x]].k))]
          \o (IF j.op \in {"LEFT", "FULL"}
              THEN [x \in DOMAIN loneLeft |->
                      MergeEnv(lefts[loneLeft[x]], nullRight)]
              ELSE <<>>)
          \o (IF j.op \in {"RIGHT", "FULL"} /\ Len(lefts) > 0
              THEN [x \in DOMAIN loneRight |->
                      MergeEnv(NullEnv(lefts[1]), renv(loneRight[x]))]
              ELSE <<>>))

\* The pairs of a join, as row environments.
JoinRows(db, st, lefts, j) ==
  With(db.tables[j.table].rows, LAMBDA rights :
    With([x \in 1..(Len(lefts) * Len(rights)) |->
            [i |-> ((x - 1) \div Len(rights)) + 1,
             k |-> ((x - 1) % Len(rights)) + 1]],
         LAMBDA pairs :
           With([x \in DOMAIN pairs |->
                   PExpr(st, j.cond,
                         MergeEnv(lefts[pairs[x].i],
                                  EnvOf(j.table, rights[pairs[x].k])), 1)],
                LAMBDA hits : Joined(db, j, lefts, rights, pairs, hits))))

RECURSIVE JoinAll(_, _, _, _)
JoinAll(db, st, envs, joins) ==
  IF joins = <<>> THEN Ok(envs)
  ELSE With(JoinRows(db, st, envs, joins[1]), LAMBDA first :
         IF ~first.ok THEN first
         ELSE JoinAll(db, st, first.val, Tail(joins)))

\* a sorts before or with b (ascending, nulls last).
SortsLeq(a, b) == b.t = "null" \/ (a.t = "key" /\ KeyLeq(a, b))

RECURSIVE Orderings(_, _, _)
\* The orders in which the rows I may come back: sorted by key when the
\* statement orders them, any order else; ties come back in any order.
Orderings(I, keys, ordered) ==
  IF I = {} THEN {<<>>}
  ELSE LET firsts == IF ordered
                     THEN {i \in I : \A j \in I : SortsLeq(keys[i], keys[j])}
                     ELSE I
       IN UNION {{<<i>> \o rest : rest \in Orderings(I \ {i}, keys, ordered)}
                 : i \in firsts}

Take(seq, n) == IF n < 0 \/ n >= Len(seq) THEN seq ELSE SubSeq(seq, 1, n)

\* The result rows of the selected row environments kept.
Selected(st, shape, kept) ==
  [i \in DOMAIN kept |->
     [a \in {Unquote(shape.items[x].alias) : x \in DOMAIN shape.items} |->
        With(CHOOSE x \in DOMAIN shape.items :
               Unquote(shape.items[x].alias) = a,
             LAMBDA x : EvalRange(st, shape.items[x].from, shape.items[x].to,
                                  kept[i]))]]

\* The rows in the orders the server may return them.
Returned(shape, rows) ==
  IF \E i \in DOMAIN rows : \E a \in DOMAIN rows[i] : rows[i][a].t = "error"
  THEN [ok |-> FALSE, outs |-> {}]
  ELSE [ok |-> TRUE,
        outs |-> {Take([x \in DOMAIN o |-> rows[o[x]]], shape.limit) :
                    o \in Orderings(DOMAIN rows,
                                    [i \in DOMAIN rows |->
                                       IF shape.ordered
                                       THEN rows[i]["_distance"]
                                       ELSE SqlNull],
                                    shape.ordered)}]

\* The rows that the WHERE clause keeps, given its value conds[i] on row i.
Filtered(st, shape, envs, conds) ==
  IF \E i \in DOMAIN conds :
       ~conds[i].ok \/ conds[i].v.t \notin {"bool", "null"}
  THEN [ok |-> FALSE, outs |-> {}]
  ELSE With(Selected(st, shape,
                     [x \in DOMAIN SelectSeq([i \in DOMAIN envs |-> i],
                                             LAMBDA i :
                                               conds[i].v = SqlBool(TRUE)) |->
                        envs[SelectSeq([i \in DOMAIN envs |-> i],
                                       LAMBDA i :
                                         conds[i].v = SqlBool(TRUE))[x]]]),
            LAMBDA rows : Returned(shape, rows))

\* The possible results of a SELECT: [ok, outs], outs a set of row sequences.
ExecSelect(db, st) ==
  With(SelectShape(db, st), LAMBDA shape :
    IF ~shape.ok THEN [ok |-> FALSE, outs |-> {}]
    ELSE With(JoinAll(db, st,
                      [i \in DOMAIN db.tables[shape.table].rows |->
                         EnvOf(shape.table, db.tables[shape.table].rows[i])],
                      shape.joins),
              LAMBDA joined :
                IF ~joined.ok THEN [ok |-> FALSE, outs |-> {}]
                ELSE With([i \in DOMAIN joined.val |->
                             IF shape.where = 0 THEN Parsed(0, SqlBool(TRUE))
                             ELSE PExpr(st, shape.where, joined.val[i], 1)],
                          LAMBDA conds :
                            Filtered(st, shape, joined.val, conds))))

(***************************************************************************)
(* Data definition and INSERT.                                              *)
(***************************************************************************)
KnownExtensions == {"vector", "embedding", "\"uuid-ossp\""}

RECURSIVE SplitAt(_, _)
\* toks split at the raw token sep.
SplitAt(toks, sep) ==
  LET j == Find(toks, 1, sep) IN
  IF j = 0 THEN <<toks>>
  ELSE <<SubSeq(toks, 1, j - 1)>> \o SplitAt(SubSeq(toks, j + 1, Len(toks)), sep)

\* Whether the server has the column type ty.
TypeKnown(db, ty) ==
  \/ ty \in {"uuid", "text", "jsonb", "integer", "REAL[]"}
  \/ ty = "vector(" \o ToString(Dims) \o ")" /\ "vector" \in db.extensions

\* One column definition: name type [NOT NULL] [DEFAULT f] [PRIMARY KEY]
\* [REFERENCES t [(c)]].
ColumnDef(db, def) ==
  LET has(a) == \E i \in DOMAIN def : IsW(def[i], a)
      ref == Find(def, 1, "REFERENCES")
  IN
  IF Len(def) < 2 \/ def[1].k # "w" \/ def[2].k # "w" THEN Throw("syntax")
  ELSE IF ~TypeKnown(db, def[2].s) THEN Throw("type does not exist")
  ELSE IF has("uuid_generate_v4()") /\ "\"uuid-ossp\"" \notin db.extensions
  THEN Throw("function does not exist")
  ELSE IF ref # 0 /\ ~IsTable(db, TokAt(def, ref + 1))
  THEN Throw("relation does not exist")
  ELSE Ok([name |-> def[1].s, type |-> def[2].s,
           notNull |-> has("NOT") \/ has("PRIMARY"),
           generated |-> has("DEFAULT")])

\* The table name with the columns cols, once every definition is sound.
CreateTable(db, name, cols) ==
  IF ~FirstThrow(cols).ok THEN [ok |-> FALSE, db |-> db, outs |-> {}]
  ELSE [ok |-> TRUE, outs |-> {<<>>},
        db |-> [db EXCEPT !.tables =
                  [t \in DOMAIN db.tables \cup {name} |->
                     IF t = name
                     THEN [cols |-> [i \in DOMAIN cols |-> cols[i].val],
                           rows |-> <<>>]
                     ELSE db.tables[t]]]]

\* CREATE TABLE [IF NOT EXISTS] name (definitions)
ExecCreateTable(db, st) ==
  LET lenient == Len(st) >= 5 /\ IsW(st[3], "IF") /\ IsW(st[4], "NOT")
                   /\ IsW(st[5], "EXISTS")
      p == IF lenient THEN 6 ELSE 3
  IN
  IF Len(st) < p + 3 \/ st[p].k # "w" \/ ~IsW(st[p + 1], "(")
       \/ ~IsW(st[Len(st)], ")")
  THEN [ok |-> FALSE, db |-> db, outs |-> {}]
  ELSE IF st[p].s \in DOMAIN db.tables
  THEN [ok |-> lenient, db |-> db, outs |-> IF lenient THEN {<<>>} ELSE {}]
  ELSE With(SplitAt(SubSeq(st, p + 2, Len(st) - 1), ","), LAMBDA defs :
         CreateTable(db, st[p].s,
                     [i \in DOMAIN defs |-> ColumnDef(db, defs[i])]))

\* A JavaScript value, as the driver formats it, stored in a column of
\* type ty.
ToColumn(ty, v) ==
  CASE v.t = "null" -> SqlNull
    [] ty \in {"text", "uuid"} ->
         IF v.t = "str" THEN SqlText(v.s)
         ELSE IF v.t = "num" THEN SqlText(NumText(v))
         ELSE SqlError
    [] ty = "jsonb" ->
         IF v.t = "map" THEN SqlJson(v)
         ELSE IF v.t = "num" THEN SqlJson(v)
         ELSE SqlError
    [] ty = "integer" ->
         IF v.t = "num" THEN RoundNum(v)
         ELSE IF v.t = "str" THEN ApplyCast("::int", SqlUnk(v.s))
         ELSE SqlError
    [] ty = "REAL[]" ->
         IF v.t = "str" THEN ParseVec(v.s, "{", "}") ELSE SqlError
    [] OTHER ->
         IF v.t = "str" THEN ParseVec(v.s, "[", "]") ELSE SqlError

\* The uuid that uuid_generate_v4() hands out next.
Uuid(n) == "uuid-" \o ToString(n)

\* The table with the rows new appended, when they satisfy its constraints.
InsertRows(db, name, new) ==
  LET table == db.tables[name]
      all == table.rows \o new
  IN
  IF \E r \in DOMAIN new : \E i \in DOMAIN table.cols :
       \/ new[r][table.cols[i].name].t = "error"
       \/ new[r][table.cols[i].name].t = "null" /\ table.cols[i].notNull
  THEN [ok |-> FALSE, db |-> db, outs |-> {}]
  ELSE IF \E i, j \in DOMAIN all : i # j /\ all[i]["id"] = all[j]["id"]
  THEN [ok |-> FALSE, db |-> db, outs |-> {}]
  ELSE [ok |-> TRUE, outs |-> {<<>>},
        db |-> [db EXCEPT !.tables[name].rows = all,
                          !.seq = @ + Len(new)]]

\* One multi-row INSERT: all rows are stored, or none.
ExecInsert(db, ins) ==
  IF ins.table \notin DOMAIN db.tables
  THEN [ok |-> FALSE, db |-> db, outs |-> {}]
  ELSE IF \E i \in DOMAIN ins.columns :
            ins.columns[i] \notin ColumnNames(db.tables[ins.table])
  THEN [ok |-> FALSE, db |-> db, outs |-> {}]
  ELSE LET table == db.tables[ins.table]
           colOf(c) == table.cols[CHOOSE i \in DOMAIN table.cols :
                                    table.cols[i].name = c]
           given(c) == \E i \in DOMAIN ins.columns : ins.columns[i] = c
           at(c) == CHOOSE i \in DOMAIN ins.columns : ins.columns[i] = c
       IN InsertRows(db, ins.table,
            [r \in DOMAIN ins.rows |->
               [c \in ColumnNames(table) |->
                  IF given(c)
                  THEN ToColumn(colOf(c).type, ins.rows[r][at(c)])
                  ELSE IF colOf(c).generated
                  THEN SqlText(Uuid(db.seq + r))
                  ELSE SqlNull]])

(***************************************************************************)
(* Indexes and settings.  An index of the catalogue is                      *)
(* [name, table, column, ops, with]; hnsw is the access method of the       *)
(* extension that owns the type of the indexed column.  db.session holds    *)
(* the settings of the session that outlive the statement: the texts of an  *)
(* operation arrive on one connection of the pool, which keeps them when    *)
(* it is released.                                                          *)
(***************************************************************************)
\* The operator classes of hnsw for a column type ("": the default one).
OperatorClasses(ty) ==
  IF ty = "REAL[]" THEN {"", "ann_cos_ops", "ann_manhattan_ops"}
  ELSE IF ty = "vector(" \o ToString(Dims) \o ")"
  THEN {"", "vector_cosine_ops", "vector_l2_ops", "vector_ip_ops"}
  ELSE {}

\* The values that hnsw takes for a storage parameter of an index on a
\* column of type ty (none: the parameter is not known).
StorageParameter(ty, name) ==
  IF ty = "REAL[]"
  THEN IF name \in {"dims", "m", "efconstruction", "efsearch"}
       THEN 1..1000 ELSE {}
  ELSE CASE name = "m" -> 2..100
         [] name = "ef_construction" -> 4..1000
         [] OTHER -> {}

\* Whether the tokens are "name = n" with n a value of the parameter.
ParameterKnown(ty, toks) ==
  /\ Len(toks) = 3
  /\ \A i \in 1..3 : toks[i].k = "w"
  /\ toks[2].s = "="
  /\ \E n \in StorageParameter(ty, toks[1].s) : ToString(n) = toks[3].s

\* The type of a column of a table ("" when it has no such column).
TypeOf(table, column) ==
  IF column \in ColumnNames(table)
  THEN table.cols[CHOOSE i \in DOMAIN table.cols :
                    table.cols[i].name = column].type
  ELSE ""

IndexNames(db) == {x.name : x \in db.indexes}

\* CREATE INDEX [IF NOT EXISTS] name ON table USING hnsw(column [ops])
\* [WITH (parameter = n, ...)]
ExecCreateIndex(db, st) ==
  LET bad == [ok |-> FALSE, db |-> db, outs |-> {}]
      lenient == Len(st) >= 5 /\ IsW(st[3], "IF") /\ IsW(st[4], "NOT")
                   /\ IsW(st[5], "EXISTS")
      p == IF lenient THEN 6 ELSE 3
      close == Find(st, p + 6, ")")
      ops == IF close = p + 8 THEN st[p + 7].s ELSE ""
      with == IF close = Len(st) THEN <<>>
              ELSE SubSeq(st, close + 3, Len(st) - 1)
      ty == TypeOf(db.tables[st[p + 2].s], st[p + 6].s)
  IN
  IF \/ Len(st) < p + 7
     \/ \E i \in p..(p + 6) : st[i].k # "w"
     \/ ~IsW(st[p + 1], "ON") \/ ~IsW(st[p + 3], "USING")
     \/ ~IsW(st[p + 4], "hnsw") \/ ~IsW(st[p + 5], "(")
     \/ close \notin {p + 7, p + 8}
     \/ close # Len(st)
          /\ (Len(st) < close + 4 \/ ~IsW(st[close + 1], "WITH")
                \/ ~IsW(st[close + 2], "(") \/ ~IsW(st[Len(st)], ")"))
  THEN bad
  ELSE IF st[p].s \in IndexNames(db) \cup DOMAIN db.tables
  THEN [ok |-> lenient, db |-> db, outs |-> IF lenient THEN {<<>>} ELSE {}]
  ELSE IF ~IsTable(db, st[p + 2]) THEN bad
  ELSE IF ops \notin OperatorClasses(ty) THEN bad
  ELSE IF \E i \in DOMAIN SplitAt(with, ",") :
            with # <<>> /\ ~ParameterKnown(ty, SplitAt(with, ",")[i])
  THEN bad
  ELSE [ok |-> TRUE, outs |-> {<<>>},
        db |-> [db EXCEPT !.indexes =
                  @ \cup {[name |-> st[p].s, table |-> st[p + 2].s,
                            column |-> st[p + 6].s, ops |-> ops,
                            with |-> with]}]]

\* DROP INDEX IF EXISTS name
ExecDropIndex(db, st) ==
  IF Len(st) # 5 \/ st[5].k # "w" \/ IsTable(db, st[5])
  THEN [ok |-> FALSE, db |-> db, outs |-> {}]
  ELSE [ok |-> TRUE, outs |-> {<<>>},
        db |-> [db EXCEPT !.indexes = {x \in @ : x.name # st[5].s}]]

\* SET [LOCAL] name = value.  Outside a transaction block SET LOCAL lasts
\* for the statement's text only; SET lasts for the session.
ExecSet(db, st) ==
  LET local == Len(st) >= 2 /\ IsW(st[2], "LOCAL")
      p == IF local THEN 3 ELSE 2
  IN
  IF Len(st) # p + 2 \/ st[p].k # "w" \/ ~IsW(st[p + 1], "=")
       \/ st[p + 2].k # "w"
  THEN [ok |-> FALSE, db |-> db, outs |-> {}]
  ELSE [ok |-> TRUE, outs |-> {<<>>},
        db |-> IF local THEN db
               ELSE [db EXCEPT !.session =
                       {x \in @ : x.name # st[p].s}
                         \cup {[name |-> st[p].s, value |-> st[p + 2].s]}]]

\* One statement.  The result is [ok, db, outs]: outs is the set of row
\* sequences the statement may return.
ExecStatement(db, st) ==
  LET bad == [ok |-> FALSE, db |-> db, outs |-> {}]
      done(d) == [ok |-> TRUE, db |-> d, outs |-> {<<>>}]
      words(ws) == Len(st) >= Len(ws) /\ \A i \in DOMAIN ws : IsW(st[i], ws[i])
  IN
  IF st[1].k = "insert"
  THEN IF Len(st) = 1 THEN ExecInsert(db, st[1]) ELSE bad
  ELSE IF words(<<"SELECT">>)
  THEN With(ExecSelect(db, st), LAMBDA r :
         [ok |-> r.ok, db |-> db, outs |-> r.outs])
  ELSE IF words(<<"DROP", "TABLE">>)
  THEN IF Len(st) = 3 /\ IsTable(db, st[3])
       THEN done([db EXCEPT !.tables =
                    [t \in DOMAIN db.tables \ {st[3].s} |-> db.tables[t]],
                            !.indexes = {x \in @ : x.table # st[3].s}])
       ELSE bad
  ELSE IF words(<<"CREATE", "EXTENSION", "IF", "NOT", "EXISTS">>)
  THEN IF Len(st) = 6 /\ st[6].k = "w" /\ st[6].s \in KnownExtensions
       THEN done([db EXCEPT !.extensions = @ \cup {st[6].s}])
       ELSE bad
  ELSE IF words(<<"CREATE", "TABLE">>)
  THEN ExecCreateTable(db, st)
  ELSE IF words(<<"CREATE", "INDEX">>)
  THEN ExecCreateIndex(db, st)
  ELSE IF words(<<"DROP", "INDEX", "IF", "EXISTS">>)
  THEN ExecDropIndex(db, st)
  ELSE IF words(<<"SET">>)
  THEN ExecSet(db, st)
  ELSE bad

RECURSIVE ExecAll(_, _, _)
ExecAll(db, sts, outs) ==
  IF sts = <<>> THEN [ok |-> TRUE, db |-> db, outs |-> outs]
  ELSE With(ExecStatement(db, sts[1]), LAMBDA r :
         IF ~r.ok THEN r ELSE ExecAll(r.db, Tail(sts), r.outs))

\* One query text sent to the server (the simple query protocol): its
\* statements run in one implicit transaction, so an error keeps the
\* database as it was; the rows are those of the last statement.
Exec(db, text) ==
  With(LexSql(text, 1), LAMBDA lexed :
    IF ~lexed.ok THEN [ok |-> FALSE, db |-> db, outs |-> {}]
    ELSE With(ExecAll(db, SplitStatements(lexed.val), {<<>>}), LAMBDA r :
           IF ~r.ok THEN [ok |-> FALSE, db |-> db, outs |-> {}] ELSE r))

(***************************************************************************)
(* The store (PGVectorStore).  Its configuration cfg is                     *)
(* [ext, useHnswIndex, rls]: the extension adapter, the useHnswIndex flag   *)
(* and whether runQuery is the override of the row-level-security subclass. *)
(* An operation is evaluated as a whole: it yields [ok, db, sent, outs],    *)
(* whether it returned or threw, the database afterwards, the texts it      *)
(* sent to the server in order, and the values it may return.               *)
(***************************************************************************)
Map(m) == [t |-> "map", m |-> m]

\* The extra columns the store is constructed with.
ExtraColumns ==
  <<[name |-> "extra_stuff", type |-> "integer", returned |-> TRUE,
     notNull |-> TRUE, references |-> "undefined"],
    [name |-> "note", type |-> "text", returned |-> FALSE,
     notNull |-> FALSE, references |-> "undefined"]>>

\* What the driver sends around the statements of a transaction.
Begin == Raw(<<"BEGIN">>)
Commit == Raw(<<"COMMIT">>)
Rollback == Raw(<<"ROLLBACK">>)
Savepoint == Raw(<<"SAVEPOINT">>)
ReleaseSavepoint == Raw(<<"RELEASE", "SAVEPOINT">>)
RollbackToSavepoint == Raw(<<"ROLLBACK", "TO", "SAVEPOINT">>)
SetLocalSeqscan == Raw(<<"SET", "LOCAL", "enable_seqscan", "=", "off", ";">>)
SetConfig(claims) ==
  Raw(<<"SELECT", "set_config", "(">>) \o <<S("request.jwt.claims"), W(",")>>
    \o <<S(claims), W(","), W("true"), W(")"), W(";")>>

(***************************************************************************)
(* runQuery as the steps the driver takes.  A step is [op, on] with op one  *)
(* of "tx" (open a transaction on the handle: BEGIN on a connection of the  *)
(* pool, SAVEPOINT on a transaction), "local" (SET LOCAL), "config" (read   *)
(* this.jwt and SELECT set_config), "query" (the closure) and "end" (leave  *)
(* the innermost transaction); on is the handle, "pool" or "tx".            *)
(***************************************************************************)
Step(op, on) == [op |-> op, on |-> on]

\* Variant: the wrapper opens its transaction on the pool, whatever handle
\* it is given.
runQueryWrapperOnPool(ext, dbInstance) ==
  IF ext.type = "pgembedding"
  THEN <<Step("tx", "pool"), Step("local", "tx"), Step("query", "tx"),
         Step("end", "tx")>>
  ELSE <<Step("query", dbInstance)>>

\* PGVectorExt.runQueryWrapper / PGEmbeddingExt.runQueryWrapper
runQueryWrapper(ext, dbInstance) ==
  IF ext.type = "pgembedding"
  THEN <<Step("tx", dbInstance), Step("local", "tx"), Step("query", "tx"),
         Step("end", "tx")>>
  ELSE <<Step("query", dbInstance)>>

\* Variant: the default runQuery hands every closure to the wrapper.
runQueryAlwaysWrapped(cfg) ==
  IF cfg.rls
  THEN <<Step("tx", "pool"), Step("config", "tx")>>
         \o runQueryWrapper(cfg.ext, "tx") \o <<Step("end", "tx")>>
  ELSE runQueryWrapper(cfg.ext, "pool")

\* PGVectorStore.runQuery and SupabasePGVectorStore.runQuery
runQuery(cfg) ==
  IF cfg.rls
  THEN <<Step("tx", "pool"), Step("config", "tx")>>
         \o runQueryWrapper(cfg.ext, "tx") \o <<Step("end", "tx")>>
  ELSE IF cfg.useHnswIndex THEN runQueryWrapper(cfg.ext, "pool")
  ELSE <<Step("query", "pool")>>

\* JSON.stringify(this.jwt): the claims are the name of the token, "null"
\* when there is none (the driver formats undefined as null).
Stringify(jwt) == IF jwt = "undefined" THEN "null" ELSE jwt

RECURSIVE Unwind(_)
\* The rollbacks of the open transactions, innermost first.
Unwind(stack) ==
  IF stack = <<>> THEN <<>>
  ELSE <<IF stack[Len(stack)] = "pool" THEN Rollback ELSE RollbackToSavepoint>>
         \o Unwind(SubSeq(stack, 1, Len(stack) - 1))

RECURSIVE Drive(_, _, _, _, _)
\* The texts sent while the steps from i on run.  q is the closure:
\* [throws, text, fails]: it throws before it sends anything, or sends text,
\* which the server may refuse.
Drive(steps, i, stack, q, claims) ==
  IF i > Len(steps) THEN <<>>
  ELSE LET step == steps[i]
           next(st) == Drive(steps, i + 1, st, q, claims)
       IN CASE step.op = "tx" ->
                 <<IF step.on = "pool" THEN Begin ELSE Savepoint>>
                   \o next(Append(stack, step.on))
            [] step.op = "local" -> <<SetLocalSeqscan>> \o next(stack)
            [] step.op = "config" -> <<SetConfig(claims)>> \o next(stack)
            [] step.op = "query" ->
                 IF q.throws THEN Unwind(stack)
                 ELSE IF q.fails THEN <<q.text>> \o Unwind(stack)
                 ELSE <<q.text>> \o next(stack)
            [] OTHER ->
                 <<IF stack[Len(stack)] = "pool" THEN Commit
                   ELSE ReleaseSavepoint>>
                   \o next(SubSeq(stack, 1, Len(stack) - 1))

Result(ok, db, sent, outs) ==
  [ok |-> ok, db |-> db, sent |-> sent, outs |-> outs]

\* this.runQuery((database) => database.any(text)), or a closure that throws
\* before it sends anything (text = <<>>).
RunClosure(cfg, db, jwt, throws, text) ==
  With(IF throws THEN [ok |-> FALSE, db |-> db, outs |-> {}]
       ELSE Exec(db, text),
       LAMBDA r :
         Result(r.ok, r.db,
                Drive(runQuery(cfg), 1, <<>>,
                      [throws |-> throws, text |-> text, fails |-> ~r.ok],
                      Stringify(jwt)),
                r.outs))

\* this.pgInstance.none(text), directly on the pool.
RunDirect(db, text) ==
  With(Exec(db, text), LAMBDA r : Result(r.ok, r.db, <<text>>, r.outs))

\* a then b: b runs on a's database if a returned.
Then(a, b(_)) ==
  IF ~a.ok THEN a
  ELSE With(b(a.db), LAMBDA r :
         Result(r.ok, r.db, a.sent \o r.sent, r.outs))

RefString(references) ==
  IF references = "undefined" THEN <<>>
  ELSE <<W("REFERENCES")>> \o Lex(references)

\* Variant: the table is created without IF NOT EXISTS.
CreateTableStatementPlain(cfg) ==
  LET columns ==
        <<Raw(<<"id", "uuid", "NOT", "NULL", "DEFAULT", "uuid_generate_v4()",
                "PRIMARY", "KEY">>),
          Lex(PageContentColumn) \o <<W("text")>>,
          Raw(<<"metadata", "jsonb">>),
          <<W("embedding")>> \o Lex(buildDataType(cfg.ext))>>
      extraColumns ==
        [i \in DOMAIN ExtraColumns |->
           Lex(ExtraColumns[i].name) \o Lex(ExtraColumns[i].type)
             \o (IF ExtraColumns[i].notNull THEN Raw(<<"NOT", "NULL">>)
                 ELSE <<>>)]
  IN Raw(<<"CREATE", "TABLE">>) \o Lex(TableName)
       \o <<W("(")>> \o JoinToks(columns \o extraColumns, <<W(",")>>)
       \o <<W(")"), W(";")>>

CreateTableStatement(cfg) ==
  LET columns ==
        <<Raw(<<"id", "uuid", "NOT", "NULL", "DEFAULT", "uuid_generate_v4()",
                "PRIMARY", "KEY">>),
          Lex(PageContentColumn) \o <<W("text")>>,
          Raw(<<"metadata", "jsonb">>),
          <<W("embedding")>> \o Lex(buildDataType(cfg.ext))>>
      extraColumns ==
        [i \in DOMAIN ExtraColumns |->
           Lex(ExtraColumns[i].name) \o Lex(ExtraColumns[i].type)
             \o (IF ExtraColumns[i].notNull THEN Raw(<<"NOT", "NULL">>)
                 ELSE <<>>)
             \o RefString(ExtraColumns[i].references)]
  IN Raw(<<"CREATE", "TABLE", "IF", "NOT", "EXISTS">>) \o Lex(TableName)
       \o <<W("(")>> \o JoinToks(columns \o extraColumns, <<W(",")>>)
       \o <<W(")"), W(";")>>

RECURSIVE RunEach(_, _)
\* await this.pgInstance.none(text) for each text in turn.
RunEach(db, texts) ==
  IF texts = <<>> THEN Result(TRUE, db, <<>>, {<<>>})
  ELSE Then(RunDirect(db, texts[1]), LAMBDA d : RunEach(d, Tail(texts)))

ensureTableInDatabase(cfg, db) ==
  RunEach(db, <<buildEnsureExtensionStatement(cfg.ext),
                Raw(<<"CREATE", "EXTENSION", "IF", "NOT", "EXISTS",
                      "\"uuid-ossp\"", ";">>),
                CreateTableStatement(cfg)>>)

(***************************************************************************)
(* addVectors / addDocuments.  A document is [pageContent, metadata]; the   *)
(* options are None or Some([extraColumns, ids]); extraColumns is None or   *)
(* Some(array), the array's elements Null or an Object.                     *)
(***************************************************************************)
IsExtraColumn(key) == \E i \in DOMAIN ExtraColumns : ExtraColumns[i].name = key

\* A plain JavaScript object, as the sequence of its [key, val] entries.
Object(entries) == [t |-> "object", entries |-> entries]

\* Whether options?.extraColumns[idx] throws: options has no extraColumns.
ExtrasThrow(options) ==
  options # None /\ options[1].extraColumns = None

\* options?.extraColumns[idx] ?? {}, reduced to the declared extra columns.
ExtrasOf(options, idx) ==
  LET given == IF options = None THEN <<>>
               ELSE IF idx > Len(options[1].extraColumns[1]) THEN <<>>
               ELSE IF options[1].extraColumns[1][idx] = Null THEN <<>>
               ELSE options[1].extraColumns[1][idx].entries
  IN SelectSeq(given, LAMBDA e : IsExtraColumn(e.key))

\* The row object built for documents[idx], as its entries in key order.
DocumentRow(cfg, embedding, document, extraColumns) ==
  <<Entry(PageContentColumn, document.pageContent),
    Entry("embedding", Str(buildInsertionVector(cfg.ext, embedding))),
    Entry("metadata", document.metadata)>> \o extraColumns

HasKey(row, key) == \E i \in DOMAIN row : row[i].key = key
ValueOf(row, key) == row[CHOOSE i \in DOMAIN row : row[i].key = key].val

\* Variant: only the first row is inserted.
InsertQueryFirstRow(rows) ==
  Ok(<<[k |-> "insert", table |-> TableName,
        columns |-> [i \in DOMAIN rows[1] |-> rows[1][i].key],
        rows |-> <<[i \in DOMAIN rows[1] |-> rows[1][i].val]>>]>>)

\* Variant: a row that lacks a property of the column set is left out.
InsertQueryComplete(rows) ==
  LET columns == [i \in DOMAIN rows[1] |-> rows[1][i].key]
      complete == SelectSeq(rows, LAMBDA row :
                    \A i \in DOMAIN columns :
                      \E j \in DOMAIN row : row[j].key = columns[i])
  IN Ok(<<[k |-> "insert", table |-> TableName, columns |-> columns,
           rows |-> [r \in DOMAIN complete |->
                       [i \in DOMAIN columns |->
                          complete[r][CHOOSE j \in DOMAIN complete[r] :
                                        complete[r][j].key = columns[i]].val]]
          ]>>)

\* pgp.helpers.insert(rows, new ColumnSet(Object.keys(rows[0]))): it throws
\* when a row lacks a property of the column set.
InsertQuery(rows) ==
  LET columns == [i \in DOMAIN rows[1] |-> rows[1][i].key]
  IN IF \E r \in DOMAIN rows : \E i \in DOMAIN columns :
          ~HasKey(rows[r], columns[i])
     THEN Throw("Property doesn't exist")
     ELSE Ok(<<[k |-> "insert", table |-> TableName, columns |-> columns,
                rows |-> [r \in DOMAIN rows |->
                            [i \in DOMAIN columns |->
                               ValueOf(rows[r], columns[i])]]]>>)

addVectors(cfg, db, jwt, vectors, documents, options) ==
  Then(ensureTableInDatabase(cfg, db),
       LAMBDA d :
         IF Len(vectors) > 0
              /\ (ExtrasThrow(options) \/ Len(documents) < Len(vectors))
         THEN Result(FALSE, d, <<>>, {})
         ELSE IF Len(vectors) = 0 THEN RunClosure(cfg, d, jwt, TRUE, <<>>)
         ELSE With(InsertQuery([idx \in DOMAIN vectors |->
                                  DocumentRow(cfg, vectors[idx],
                                              documents[idx],
                                              ExtrasOf(options, idx))]),
                   LAMBDA insertQuery :
                     RunClosure(cfg, d, jwt, ~insertQuery.ok,
                                IF insertQuery.ok THEN insertQuery.val
                                ELSE <<>>)))

\* The embedder (an external collaborator): a fixed map from text to vector.
Embed(text) ==
  CASE text = "hello" -> <<1, 0>>
    [] text = "bye" -> <<0, 1>>
    [] OTHER -> <<1, 1>>

addDocuments(cfg, db, jwt, documents, options) ==
  addVectors(cfg, db, jwt,
             [i \in DOMAIN documents |-> Embed(documents[i].pageContent.s)],
             documents, options)

(***************************************************************************)
(* fetchRows and the searches.  A filter argument is None or                *)
(* Some([metadataFilter, columnFilter, join]), each field None or Some(x);  *)
(* a join is one statement or Arr of statements.                            *)
(***************************************************************************)
Undefined == [t |-> "undefined"]

\* row[key] of a JavaScript object.
Get(row, key) == IF key \in DOMAIN row THEN row[key] ELSE Undefined

\* The driver's type parsers: a value of a result row as a JavaScript value.
\* A type the driver does not know (vector) arrives as its text.
FromServer(ty, v) ==
  CASE v.t = "null" -> Null
    [] v.t = "text" -> Str(v.s)
    [] v.t = "json" -> v.j
    [] v.t = "vec" ->
         IF ty = "REAL[]" THEN [t |-> "vec", v |-> v.v]
         ELSE Str("[" \o JoinText(v.v, ",") \o "]")
    [] OTHER -> v

\* The declared type of a column of the store's table.
ColumnType(db, column) ==
  IF TableName \in DOMAIN db.tables
       /\ column \in ColumnNames(db.tables[TableName])
  THEN LET cols == db.tables[TableName].cols
       IN cols[CHOOSE i \in DOMAIN cols : cols[i].name = column].type
  ELSE "text"

\* database.any(queryStr): the rows as JavaScript objects.
AnyRows(db, rows) ==
  [i \in DOMAIN rows |->
     [a \in DOMAIN rows[i] |-> FromServer(ColumnType(db, a), rows[i][a])]]

\* JSON.parse of an embedding that arrived as text.
ParseEmbedding(value) ==
  IF value.t # "str" THEN Ok(value)
  ELSE IF ParseVec(value.s, "[", "]").t = "vec"
  THEN Ok([t |-> "vec", v |-> ParseVec(value.s, "[", "]").v])
  ELSE Throw("Error parsing embedding")

\* The loop of fetchRows over the results.
ParseEmbeddings(results) ==
  IF Len(results) > 0 /\ "embedding" \in DOMAIN results[1]
  THEN LET parsed == [i \in DOMAIN results |->
                        ParseEmbedding(Get(results[i], "embedding"))]
       IN IF ~FirstThrow(parsed).ok THEN FirstThrow(parsed)
          ELSE Ok([i \in DOMAIN results |->
                     IF "embedding" \in DOMAIN results[i]
                     THEN [results[i] EXCEPT !["embedding"] = parsed[i].val]
                     ELSE results[i]])
  ELSE Ok(results)

\* Variant: the two filters are never taken to be given together.
NeverBothFilters(metadataFilter, columnFilter) == FALSE

\* "metadataFilter && columnFilter": both filters are given.
BothFilters(metadataFilter, columnFilter) ==
  metadataFilter # None /\ columnFilter # None

FilterField(filter, field) == IF filter = None THEN None ELSE filter[1][field]

\* queryStr of fetchRows, with "$1" formatted as k.
QueryStr(k, fetchStatement, joinStatements, filterStr) ==
  fetchStatement
    \o JoinToks(joinStatements, <<>>)
    \o filterStr
    \o <<W("ORDER"), W("BY"), W("\"_distance\""), W("LIMIT"), N(Num(k)),
         W(";")>>

\* The end of fetchRows: the query is put together and run, and the
\* embeddings of its rows are parsed.
FetchResults(cfg, db, jwt, k, fetchStatement, joinStatements, filterStr) ==
  With(RunClosure(cfg, db, jwt, FALSE,
                  QueryStr(k, fetchStatement, joinStatements, filterStr)),
       LAMBDA r :
         IF ~r.ok THEN r
         ELSE With({ParseEmbeddings(AnyRows(db, rows)) : rows \in r.outs},
                   LAMBDA results :
                     IF \E rows \in results : ~rows.ok
                     THEN Result(FALSE, r.db, r.sent, {})
                     ELSE Result(TRUE, r.db, r.sent,
                                 {rows.val : rows \in results})))

\* The middle of fetchRows, once the joins are built.
FetchFiltered(cfg, db, jwt, query, k, filter, returnedColumns, joins) ==
  LET metadataFilter == FilterField(filter, "metadataFilter")
      columnFilter == FilterField(filter, "columnFilter")
      shouldDisambiguate == FilterField(filter, "join") # None
      filterType == IF metadataFilter # None THEN "metadata"
                    ELSE IF columnFilter # None THEN "column"
                    ELSE "metadata"
      selectedColumns ==
        returnedColumns
          \o [i \in DOMAIN SelectSeq(ExtraColumns, LAMBDA c : c.returned) |->
                SelectSeq(ExtraColumns, LAMBDA c : c.returned)[i].name]
  IN
  IF BothFilters(metadataFilter, columnFilter)
  THEN Result(FALSE, db, <<>>, {})
  ELSE With(buildFetchRowsStatement(cfg.ext, query, TableName,
                                    <<"id", PageContentColumn, "metadata">>
                                      \o selectedColumns,
                                    shouldDisambiguate),
            LAMBDA fetchStatement :
              IF ~fetchStatement.ok THEN Result(FALSE, db, <<>>, {})
              ELSE With(buildSqlFilterStr(IF metadataFilter # None
                                          THEN metadataFilter
                                          ELSE columnFilter, filterType),
                        LAMBDA filterStr :
                          IF ~filterStr.ok THEN Result(FALSE, db, <<>>, {})
                          ELSE FetchResults(cfg, db, jwt, k,
                                            fetchStatement.val,
                                            joins, filterStr.val)))

fetchRows(cfg, db, jwt, query, k, filter, returnedColumns) ==
  With(IF FilterField(filter, "join") = None THEN <<>>
       ELSE IF "items" \in DOMAIN FilterField(filter, "join")[1]
       THEN [i \in DOMAIN FilterField(filter, "join")[1].items |->
               buildJoinStatement(FilterField(filter, "join")[1].items[i])]
       ELSE <<buildJoinStatement(FilterField(filter, "join")[1])>>,
       LAMBDA joinStatements :
         IF ~FirstThrow(joinStatements).ok
         THEN Result(FALSE, db, <<>>, {})
         ELSE FetchFiltered(cfg, db, jwt, query, k, filter, returnedColumns,
                            [i \in DOMAIN joinStatements |->
                               joinStatements[i].val]))

\* new Document({pageContent, metadata})
Document(pageContent, metadata) ==
  [pageContent |-> pageContent, metadata |-> metadata]

similaritySearchVectorWithScore(cfg, db, jwt, query, k, filter) ==
  With(fetchRows(cfg, db, jwt, query, k, filter, <<>>), LAMBDA r :
    IF ~r.ok THEN r
    ELSE [r EXCEPT !.outs =
            {[i \in DOMAIN rows |->
                <<Document(Get(rows[i], PageContentColumn),
                           Get(rows[i], "metadata")),
                  Get(rows[i], "_distance")>>] : rows \in r.outs}])

\* VectorStore.similaritySearch
similaritySearch(cfg, db, jwt, query, k, filter) ==
  With(similaritySearchVectorWithScore(cfg, db, jwt, Embed(query), k,
                                       filter),
       LAMBDA r :
         IF ~r.ok THEN r
         ELSE [r EXCEPT !.outs =
                 {[i \in DOMAIN results |-> results[i][1]] :
                    results \in r.outs}])

(***************************************************************************)
(* The MMR kernel (util/math maximalMarginalRelevance): cosine similarity   *)
(* in thousandths, lambda in tenths; each pick maximises                    *)
(* lambda * sim(q, e) - (1 - lambda) * max sim(e, selected), the smaller    *)
(* index winning a tie; the result has min(k, n) indices.                   *)
(***************************************************************************)
CosineSimilarity(a, b) ==
  CHOOSE c \in 0..1000 :
    /\ c * c * Dot(a, a) * Dot(b, b) <= 1000000 * Dot(a, b) * Dot(a, b)
    /\ c = 1000 \/ (c + 1) * (c + 1) * Dot(a, a) * Dot(b, b)
                     > 1000000 * Dot(a, b) * Dot(a, b)

Max(xs) == CHOOSE x \in xs : \A y \in xs : y <= x

RECURSIVE MmrPick(_, _, _, _, _)
MmrPick(queryEmbedding, embeddings, lambda, k, selected) ==
  LET chosen == {selected[i] : i \in DOMAIN selected}
      rest == DOMAIN embeddings \ chosen
      score(i) ==
        lambda * CosineSimilarity(queryEmbedding, embeddings[i])
          - (10 - lambda)
              * (IF chosen = {} THEN 0
                 ELSE Max({CosineSimilarity(embeddings[i], embeddings[j]) :
                             j \in chosen}))
      best == CHOOSE i \in rest :
                \A j \in rest : score(j) < score(i)
                                  \/ (score(j) = score(i) /\ i <= j)
  IN IF Len(selected) >= k \/ rest = {} THEN selected
     ELSE MmrPick(queryEmbedding, embeddings, lambda, k,
                  Append(selected, best))

maximalMarginalRelevance(queryEmbedding, embeddings, lambda, k) ==
  MmrPick(queryEmbedding, embeddings, lambda, k, <<>>)

\* The defaults of the options of maxMarginalRelevanceSearch.
DefaultFetchK == 20
DefaultLambda == 7

\* Variant: the kernel is asked for fetchK indices instead of k.
maxMarginalRelevanceSearchFetchK(cfg, db, jwt, query, options) ==
  LET fetchK == IF options.fetchK = None THEN DefaultFetchK
                ELSE options.fetchK[1]
      lambda == IF options.lambda = None THEN DefaultLambda
                ELSE options.lambda[1]
      queryEmbedding == Embed(query)
      documents(results) ==
        LET embeddings == [i \in DOMAIN results |->
                             Get(results[i], "embedding").v]
            mmrIndexes == maximalMarginalRelevance(queryEmbedding, embeddings,
                                                   lambda, fetchK)
        IN [i \in DOMAIN mmrIndexes |->
              Document(Get(results[mmrIndexes[i]], "pageContent"),
                       Get(results[mmrIndexes[i]], "metadata"))]
  IN With(fetchRows(cfg, db, jwt, queryEmbedding, fetchK, options.filter,
                    <<"embedding">>),
          LAMBDA r :
            IF ~r.ok THEN r
            ELSE [r EXCEPT !.outs =
                    {documents(results) : results \in r.outs}])

\* options is [k, fetchK, lambda, filter]; fetchK and lambda are None or
\* Some(n).
maxMarginalRelevanceSearch(cfg, db, jwt, query, options) ==
  LET fetchK == IF options.fetchK = None THEN DefaultFetchK
                ELSE options.fetchK[1]
      lambda == IF options.lambda = None THEN DefaultLambda
                ELSE options.lambda[1]
      queryEmbedding == Embed(query)
      documents(results) ==
        LET embeddings == [i \in DOMAIN results |->
                             Get(results[i], "embedding").v]
            mmrIndexes == maximalMarginalRelevance(queryEmbedding, embeddings,
                                                   lambda, options.k)
        IN [i \in DOMAIN mmrIndexes |->
              Document(Get(results[mmrIndexes[i]], "pageContent"),
                       Get(results[mmrIndexes[i]], "metadata"))]
  IN With(fetchRows(cfg, db, jwt, queryEmbedding, fetchK, options.filter,
                    <<"embedding">>),
          LAMBDA r :
            IF ~r.ok THEN r
            ELSE [r EXCEPT !.outs =
                    {documents(results) : results \in r.outs}])

(***************************************************************************)
(* Indexes.  The options of buildIndex are [m, efConstruction, efSearch],   *)
(* each None or Some(n).                                                    *)
(***************************************************************************)
\* The defaults of the options of buildHNSWIndexStatement.
DefaultM == 16
DefaultEfConstruction == 64

\* "name = n" as the template literal writes it.
Option(name, n) == <<W(name), W("="), W(ToString(n))>>

\* PGEmbeddingExt.buildHNSWIndexStatement / PGVectorExt.buildHNSWIndexStatement
buildHNSWIndexStatement(ext, indexName, tableName, columnName, indexOpts) ==
  LET m == IF indexOpts.m = None THEN DefaultM ELSE indexOpts.m[1]
      efConstruction == IF indexOpts.efConstruction = None
                        THEN DefaultEfConstruction
                        ELSE indexOpts.efConstruction[1]
      efSearch == IF indexOpts.efSearch = None THEN 0
                  ELSE indexOpts.efSearch[1]
      on == Lex(indexName) \o <<W("ON")>> \o Lex(tableName)
              \o <<W("USING"), W("hnsw"), W("(")>> \o Lex(columnName)
  IN
  IF ext.type = "pgembedding"
  THEN LET opts == <<Option("dims", ext.dims)>>
                     \o (IF m # 0 THEN <<Option("m", m)>> ELSE <<>>)
                     \o (IF efConstruction # 0
                         THEN <<Option("efconstruction", efConstruction)>>
                         ELSE <<>>)
                     \o (IF efSearch # 0
                         THEN <<Option("efsearch", efSearch)>> ELSE <<>>)
           ops == CASE ext.metric = "cosine" -> "ann_cos_ops"
                    [] ext.metric = "l2" -> ""
                    [] ext.metric = "manhattan" -> "ann_manhattan_ops"
                    [] OTHER -> "throw"
       IN IF ops = "throw" THEN Throw("Invalid metric")
          ELSE Ok(Raw(<<"CREATE", "INDEX", "IF", "NOT", "EXISTS">>) \o on
                    \o Lex(ops) \o <<W(")"), W("WITH"), W("(")>>
                    \o JoinToks(opts, <<W(",")>>) \o <<W(")"), W(";")>>)
  ELSE LET opts == (IF m # 0 THEN <<Option("m", m)>> ELSE <<>>)
                     \o (IF efConstruction # 0
                         THEN <<Option("ef_construction", efConstruction)>>
                         ELSE <<>>)
           efSearchStr ==
             IF efSearch # 0
             THEN <<W("SET"), W("hnsw.ef_search"), W("="),
                    W(ToString(efSearch)), W(";")>>
             ELSE <<>>
           ops == CASE ext.metric = "cosine" -> "vector_cosine_ops"
                    [] ext.metric = "l2" -> "vector_l2_ops"
                    [] ext.metric = "inner_product" -> "vector_ip_ops"
                    [] OTHER -> "throw"
       IN IF ops = "throw" THEN Throw("Invalid metric")
          ELSE Ok(Raw(<<"CREATE", "INDEX">>) \o on \o Lex(ops) \o <<W(")")>>
                    \o (IF Len(opts) > 0
                        THEN <<W("WITH"), W("(")>>
                               \o JoinToks(opts, <<W(",")>>) \o <<W(")")>>
                        ELSE <<>>)
                    \o <<W(";")>> \o efSearchStr)

buildIndex(cfg, db, indexName, indexOpts) ==
  Then(ensureTableInDatabase(cfg, db),
       LAMBDA d :
         With(buildHNSWIndexStatement(cfg.ext, indexName, TableName,
                                      "embedding", indexOpts),
              LAMBDA statement :
                IF ~statement.ok THEN Result(FALSE, d, <<>>, {})
                ELSE RunDirect(d, statement.val)))

dropIndex(cfg, db, indexName) ==
  Then(ensureTableInDatabase(cfg, db),
       LAMBDA d :
         RunDirect(d, Raw(<<"DROP", "INDEX", "IF", "EXISTS">>)
                        \o Lex(indexName) \o <<W(";")>>))

(***************************************************************************)
(* The state: the store's configuration and jwt, the database, the last     *)
(* operation a caller ran with what it sent and returned, and, for the      *)
(* step-by-step view of runQuery, the calls in flight and the connections   *)
(* of the pool.                                                             *)
(***************************************************************************)
VARIABLES cfg, db, jwt, last, calls, conns

vars == <<cfg, db, jwt, last, calls, conns>>

\* new PGVectorStore(embeddings, args) for every valid pgExtensionOpts,
\* and new SupabasePGVectorStore(...) when rls.
Configs ==
  UNION {{[ext |-> NewExtension(type, metric).val, useHnswIndex |-> h,
           rls |-> r] :
            metric \in {m \in Metrics \cup {"undefined"} :
                          NewExtension(type, m).ok},
            h \in BOOLEAN, r \in BOOLEAN} : type \in ExtTypes}

EmptyDb ==
  [extensions |-> {}, tables |-> <<>>, indexes |-> {}, seq |-> 0,
   session |-> {}]

\* The documents callers add.
AllDocs ==
  <<Document(Str("hello"), Map([b |-> Num(1), stuff |-> Str("hello")])),
    Document(Str("bye"), Map([b |-> Num(0), stuff |-> Str("10")])),
    Document(Str("hi"), Map([b |-> Num(2), stuff |-> Str("bye")]))>>

\* The batches callers add: the first n of the documents.
Batches == {SubSeq(AllDocs, 1, n) : n \in 0..MaxBatch}

\* The extra column values of the idx-th document of a batch.
Extras(idx) ==
  Object(<<Entry("extra_stuff", Num(idx)), Entry("undeclared", Str("x"))>>)

\* The same with a value for the extra column that may be null.
ExtrasWithNote(idx) ==
  Object(<<Entry("extra_stuff", Num(idx)), Entry("note", Str("hello")),
           Entry("undeclared", Str("x"))>>)

\* The options of a batch of n rows of which only the row at has a note.
NoteAt(n, at) ==
  Some([extraColumns |-> Some([i \in 1..n |->
                                 IF i = at THEN ExtrasWithNote(i)
                                 ELSE Extras(i)]),
        ids |-> None])

SuppliedId(idx) == "id-" \o ToString(idx)

\* The options a caller passes with a batch of n documents.
OptionsFor(n) ==
  {None,
   Some([extraColumns |-> None, ids |-> None]),
   Some([extraColumns |-> Some([i \in 1..n |-> Extras(i)]), ids |-> None]),
   Some([extraColumns |-> Some([i \in 1..n |-> Extras(i)]),
         ids |-> Some([i \in 1..n |-> SuppliedId(i)])]),
   Some([extraColumns |-> Some([i \in 1..n |->
                                  IF i = 1 THEN Extras(i) ELSE Null]),
         ids |-> None]),
   Some([extraColumns |-> Some([i \in 1..n |->
                                  IF i = n THEN Extras(i) ELSE Null]),
         ids |-> None])}

\* The rows of the store's table (none when there is no table).
Rows(d) ==
  IF TableName \in DOMAIN d.tables THEN d.tables[TableName].rows ELSE <<>>

NoOperation == [op |-> "none", ok |-> TRUE, sent |-> <<>>, before |-> EmptyDb]

Idle == [pc |-> 0, stack |-> <<>>, ran |-> None, opened |-> 0]
NoCalls == [c \in 1..MaxCalls |-> Idle]
FreeConnection == [depth |-> 0, seqscan |-> FALSE, claims |-> None]
PoolSize == 2 * MaxCalls
FreePool == [n \in 1..PoolSize |-> FreeConnection]

(***************************************************************************)
(* Writes.  A caller adds a batch and then takes the outcome.               *)
(***************************************************************************)
\* The stores whose writes are followed: either extension with its default
\* metric, run plainly, with useHnswIndex, or as the subclass.
StoreConfigs ==
  {c \in Configs : c.ext.metric = "cosine" /\ ~(c.rls /\ c.useHnswIndex)}

Init ==
  /\ cfg \in StoreConfigs
  /\ db = EmptyDb
  /\ jwt = "undefined"
  /\ last = NoOperation
  /\ calls = NoCalls
  /\ conns = FreePool

AddDocuments ==
  /\ last.op = "none"
  /\ \E documents \in Batches : \E options \in OptionsFor(Len(documents)) :
       /\ Len(Rows(db)) + Len(documents) <= MaxRows
       /\ \E r \in {addDocuments(cfg, db, jwt, documents, options)} :
            /\ db' = r.db
            /\ last' = [op |-> "addDocuments", documents |-> documents,
                        options |-> options, ok |-> r.ok, sent |-> r.sent,
                        before |-> db]
  /\ UNCHANGED <<cfg, jwt, calls, conns>>

AddVectors ==
  /\ last.op = "none"
  /\ \E documents \in Batches : \E n \in {Len(documents), Len(documents) + 1} :
     \E options \in {None,
                     Some([extraColumns |-> Some([i \in 1..n |-> Extras(i)]),
                           ids |-> None]),
                     NoteAt(n, 1), NoteAt(n, n)} :
       /\ Len(Rows(db)) + n <= MaxRows
       /\ \E r \in {addVectors(cfg, db, jwt, [i \in 1..n |-> <<1, 1>>],
                                documents, options)} :
            /\ db' = r.db
            /\ last' = [op |-> "addVectors", documents |-> documents,
                        vectors |-> [i \in 1..n |-> <<1, 1>>],
                        options |-> options, ok |-> r.ok, sent |-> r.sent,
                        before |-> db]
  /\ UNCHANGED <<cfg, jwt, calls, conns>>

\* The caller has the outcome of its operation and may start another.
Return ==
  /\ last.op # "none"
  /\ last' = NoOperation
  /\ UNCHANGED <<cfg, db, jwt, calls, conns>>

Next == AddDocuments \/ AddVectors \/ Return

Spec == Init /\ [][Next]_vars

(***************************************************************************)
(* Searches, on a database that holds a second table, some_extra_stuff,     *)
(* for joins, and the first n documents, added by addDocuments.             *)
(***************************************************************************)
FixtureDb ==
  [extensions |-> {},
   tables |-> [t \in {"some_extra_stuff"} |->
                 [cols |-> <<[name |-> "id", type |-> "integer",
                              notNull |-> TRUE, generated |-> FALSE],
                             [name |-> "type", type |-> "text",
                              notNull |-> FALSE, generated |-> FALSE]>>,
                  rows |-> <<[id |-> SqlNum(1, 0), type |-> SqlText("hello")],
                             [id |-> SqlNum(2, 0), type |-> SqlText("hi")]>>]],
   indexes |-> {},
   seq |-> 0,
   session |-> {}]

Seeded(c, n) ==
  addDocuments(c, FixtureDb, "undefined", SubSeq(AllDocs, 1, n),
               Some([extraColumns |-> Some([i \in 1..n |-> Extras(i)]),
                     ids |-> None])).db

\* Every extension with every metric, run plainly; the default metric also
\* with useHnswIndex and as the subclass.
SearchConfigs ==
  {c \in Configs : ~(c.rls /\ c.useHnswIndex)
                     /\ (c.ext.metric = "cosine"
                           \/ (~c.rls /\ ~c.useHnswIndex))}

Filter(metadataFilter, columnFilter, join) ==
  Some([metadataFilter |-> metadataFilter, columnFilter |-> columnFilter,
        join |-> join])

On(left, right) == [left |-> left, right |-> right, operator |-> "undefined"]
Join(table, on) == [op |-> "JOIN", table |-> table, on |-> on]

\* The filters callers search with that follow the grammar of filters:
\* comparisons, implicit $eq, $and / $or, on metadata and on columns.
PlainFilters ==
  {None,
   Filter(Some(<<Entry("stuff", Str("hello"))>>), None, None),
   Filter(Some(<<Entry("b", Num(1))>>), None, None),
   Filter(Some(<<Entry("b", Obj(<<OpVal("$eq", Num(0))>>))>>), None, None),
   Filter(Some(<<Entry("b", Obj(<<OpVal("$gte", Num(1))>>))>>), None, None),
   Filter(Some(<<Entry("stuff", Str("10"))>>), None, None),
   Filter(Some(<<Entry("$or", Arr(<<<<Entry("b", Num(1))>>,
                                     <<Entry("stuff", Str("bye"))>>>>))>>),
          None, None),
   Filter(None, Some(<<Entry(PageContentColumn, Str("hello"))>>), None),
   Filter(None, Some(<<Entry("extra_stuff", Obj(<<OpVal("$gt", Num(1))>>))>>),
          None),
   Filter(None,
          Some(<<Entry("$and",
                       Arr(<<<<Entry("extra_stuff",
                                     Obj(<<OpVal("$lte", Num(2))>>))>>,
                             <<Entry(PageContentColumn,
                                     Obj(<<OpVal("$not", Str("hello"))>>))>>
                           >>))>>),
          None)}

\* Filters whose key is text that closes the clause and adds a statement.
InjectionFilters ==
  {Filter(Some(<<Entry(EvilMetaKey, Str("x"))>>), None, None),
   Filter(None, Some(<<Entry(EvilColumnKey, Str("x"))>>), None)}

\* Filters that carry both a metadataFilter and a columnFilter.
DoubleFilters ==
  {Filter(Some(<<Entry("b", Num(1))>>),
          Some(<<Entry(PageContentColumn, Str("hello"))>>), None),
   Filter(Some(<<Entry("b", Num(1))>>),
          Some(<<Entry(PageContentColumn, Str("hello"))>>),
          Some(Join("some_extra_stuff",
                    <<On("documents.extra_stuff", "some_extra_stuff.id")>>)))}

\* Filters with a join: a sound one, alone and with a filter on the joined
\* table, and joins whose table or right side is text that adds a statement.
JoinFilters ==
  {Filter(None, None,
          Some(Join("some_extra_stuff",
                    <<On("documents.extra_stuff", "some_extra_stuff.id")>>))),
   Filter(None, Some(<<Entry("some_extra_stuff.type", Str("hello"))>>),
          Some(Join("some_extra_stuff",
                    <<On("documents.extra_stuff", "some_extra_stuff.id")>>))),
   Filter(None, None,
          Some(Join(EvilJoinTable,
                    <<On("documents.extra_stuff", "some_extra_stuff.id")>>))),
   Filter(None, None,
          Some(Join("some_extra_stuff",
                    <<On("documents.extra_stuff", EvilJoinSide)>>)))}

\* Filters whose join has an operator that is none of the six: alone, and
\* in a list after a sound join.
InvalidJoinFilters ==
  {Filter(None, None,
          Some([Join("some_extra_stuff",
                     <<On("documents.extra_stuff", "some_extra_stuff.id")>>)
                  EXCEPT !.op = "NATURAL JOIN"])),
   Filter(None, None,
          Some(Arr(<<Join("some_extra_stuff",
                          <<On("documents.extra_stuff",
                               "some_extra_stuff.id")>>),
                     [Join("some_extra_stuff",
                           <<On("documents.extra_stuff",
                                "some_extra_stuff.id")>>)
                        EXCEPT !.op = "join"]>>)))}

\* Filters with an operator that ComparisonMap does not hold: one with a
\* value to compare with, one with a falsy value.
UnknownOperatorFilters ==
  {Filter(Some(<<Entry("stuff", Obj(<<OpVal("$neq", Str("hello"))>>))>>),
          None, None),
   Filter(None, Some(<<Entry("extra_stuff", Obj(<<OpVal("$in", Num(0))>>))>>),
          None)}

\* Filters whose filter object is empty, without and with a join.
EmptyFilters ==
  {Filter(Some(<<>>), None, None),
   Filter(None, Some(<<>>),
          Some(Join("some_extra_stuff",
                    <<On("documents.extra_stuff", "some_extra_stuff.id")>>)))}

SearchFilters ==
  PlainFilters \cup InjectionFilters \cup DoubleFilters \cup JoinFilters
    \cup InvalidJoinFilters \cup UnknownOperatorFilters \cup EmptyFilters

InitSearch ==
  /\ cfg \in SearchConfigs
  /\ \E n \in 0..MaxRows : db = Seeded(cfg, n)
  /\ jwt = "undefined"
  /\ last = NoOperation
  /\ calls = NoCalls
  /\ conns = FreePool

SimilaritySearch ==
  /\ last.op = "none"
  /\ \E k \in 1..MaxK : \E filter \in SearchFilters :
     \E r \in {similaritySearch(cfg, db, jwt, "hello", k, filter)} :
       /\ db' = r.db
       /\ last' = [op |-> "similaritySearch", query |-> Embed("hello"),
                   k |-> k, filter |-> filter, ok |-> r.ok, sent |-> r.sent,
                   outs |-> r.outs, before |-> db]
  /\ UNCHANGED <<cfg, jwt, calls, conns>>

SimilaritySearchVectorWithScore ==
  /\ last.op = "none"
  /\ \E query \in {<<1, 0>>, <<0, 1>>} : \E k \in 1..MaxK :
     \E filter \in SearchFilters :
     \E r \in {similaritySearchVectorWithScore(cfg, db, jwt, query, k,
                                               filter)} :
       /\ db' = r.db
       /\ last' = [op |-> "similaritySearchVectorWithScore",
                   query |-> query, k |-> k, filter |-> filter, ok |-> r.ok,
                   sent |-> r.sent, outs |-> r.outs, before |-> db]
  /\ UNCHANGED <<cfg, jwt, calls, conns>>

MaxMarginalRelevanceSearch ==
  /\ last.op = "none"
  /\ \E k \in 1..MaxK : \E fetchK \in {None, Some(MaxK)} :
     \E filter \in SearchFilters :
     \E r \in {maxMarginalRelevanceSearch(cfg, db, jwt, "bye",
                 [k |-> k, fetchK |-> fetchK, lambda |-> None,
                  filter |-> filter])} :
       /\ db' = r.db
       /\ last' = [op |-> "maxMarginalRelevanceSearch",
                   query |-> Embed("bye"), k |-> k, fetchK |-> fetchK,
                   filter |-> filter, ok |-> r.ok, sent |-> r.sent,
                   outs |-> r.outs, before |-> db]
  /\ UNCHANGED <<cfg, jwt, calls, conns>>

NextSearch ==
  \/ SimilaritySearch
  \/ SimilaritySearchVectorWithScore
  \/ MaxMarginalRelevanceSearch
  \/ Return

SpecSearch == InitSearch /\ [][NextSearch]_vars

(***************************************************************************)
(* runQuery step by step.  Callers run closures through runQuery at the     *)
(* same time; each await of the driver is a step.  A call is                *)
(* [pc, stack, ran, opened]: the step it is at (0: not running), the        *)
(* connections of the transactions it has open (outermost first), what its  *)
(* closure saw when it ran (None before), and the number of top-level       *)
(* transactions it has opened.  A connection is                             *)
(* [depth, seqscan, claims]: the depth of its open transactions (0: free),  *)
(* whether enable_seqscan is off, and the value of request.jwt.claims       *)
(* (None: not set); both settings are local to the transaction.             *)
(***************************************************************************)
RunConfigs ==
  {c \in Configs : c.ext.metric = "cosine" /\ ~(c.rls /\ c.useHnswIndex)}

\* The tokens a caller may set.
Tokens == {"alice"}

\* The closures that run: a search that the server answers and one that it
\* refuses (its filter names a column that the table has not).
ClosureTexts(c) ==
  {QueryStr(1,
            buildFetchRowsStatement(c.ext, <<1, 0>>, TableName,
                                    <<"id", PageContentColumn, "metadata",
                                      "extra_stuff">>, FALSE).val,
            <<>>,
            buildSqlFilterStr(filter, "column").val) :
     filter \in {None, Some(<<Entry("missing", Num(1))>>)}}

InitRun ==
  /\ cfg \in RunConfigs
  /\ db = Seeded(cfg, 1)
  /\ jwt = "undefined"
  /\ last = NoOperation
  /\ calls = NoCalls
  /\ conns = FreePool

\* Whether call c is at a step with this op.
AtStep(c, op) ==
  /\ calls[c].pc \in DOMAIN runQuery(cfg)
  /\ runQuery(cfg)[calls[c].pc].op = op

\* Whether the step call c is at uses the pool (and not its transaction).
OnPool(c) == runQuery(cfg)[calls[c].pc].on = "pool"

\* The connection the pool hands out, if it has one: the first that is
\* free.
FreeConn ==
  {n \in DOMAIN conns :
     /\ conns[n].depth = 0
     /\ \A m \in DOMAIN conns : conns[m].depth = 0 => n <= m}

\* The connection of the innermost transaction of call c.
Handle(c) == calls[c].stack[Len(calls[c].stack)]

\* The connection that the step call c is at uses.
Target(c) == IF OnPool(c) THEN FreeConn ELSE {Handle(c)}

\* setJWT
SetJWT ==
  /\ cfg.rls
  /\ \E j \in Tokens : j # jwt /\ jwt' = j
  /\ UNCHANGED <<cfg, db, last, calls, conns>>

\* unsetJWT
UnsetJWT ==
  /\ cfg.rls
  /\ jwt # "undefined"
  /\ jwt' = "undefined"
  /\ UNCHANGED <<cfg, db, last, calls, conns>>

\* this.runQuery(query) is called; the call is the first that is not
\* running.
Start(c) ==
  /\ calls[c].pc = 0
  /\ \A b \in DOMAIN calls : b < c => calls[b].pc # 0
  /\ calls' = [calls EXCEPT ![c] = [Idle EXCEPT !.pc = 1]]
  /\ UNCHANGED <<cfg, db, jwt, last, conns>>

\* pgInstance.tx / dbInstance.tx: BEGIN on a connection of the pool, or
\* SAVEPOINT on the connection of the transaction.
OpenTx(c) ==
  /\ AtStep(c, "tx")
  /\ \E n \in Target(c) :
       /\ conns' = [conns EXCEPT ![n].depth = @ + 1]
       /\ calls' = [calls EXCEPT ![c].stack = Append(@, n),
                                 ![c].opened = IF OnPool(c) THEN @ + 1 ELSE @,
                                 ![c].pc = @ + 1]
  /\ UNCHANGED <<cfg, db, jwt, last>>

\* SET LOCAL enable_seqscan = off;
SetLocal(c) ==
  /\ AtStep(c, "local")
  /\ conns' = [conns EXCEPT ![Handle(c)].seqscan = TRUE]
  /\ calls' = [calls EXCEPT ![c].pc = @ + 1]
  /\ UNCHANGED <<cfg, db, jwt, last>>

\* SELECT set_config('request.jwt.claims', JSON.stringify(this.jwt), true);
SetClaims(c) ==
  /\ AtStep(c, "config")
  /\ conns' = [conns EXCEPT ![Handle(c)].claims = Some(Stringify(jwt))]
  /\ calls' = [calls EXCEPT ![c].pc = @ + 1]
  /\ UNCHANGED <<cfg, db, jwt, last>>

\* query(t): the closure sends a text on the connection of its handle (a
\* free connection when the handle is the pool).  When the server refuses
\* it, the error rolls every open transaction back and the call is over.
RunQuery(c) ==
  /\ AtStep(c, "query")
  /\ \E n \in Target(c) : \E text \in ClosureTexts(cfg) :
     \E r \in {Exec(db, text)} :
       /\ db' = r.db
       /\ calls' =
            [calls EXCEPT
               ![c].ran = Some([conn |-> n, depth |-> conns[n].depth,
                                seqscan |-> conns[n].seqscan,
                                claims |-> conns[n].claims,
                                stack |-> calls[c].stack, ok |-> r.ok]),
               ![c].pc = IF r.ok THEN @ + 1 ELSE Len(runQuery(cfg)) + 1,
               ![c].stack = IF r.ok THEN @ ELSE <<>>]
       /\ conns' = IF r.ok THEN conns
                   ELSE [m \in DOMAIN conns |->
                           IF \E i \in DOMAIN calls[c].stack :
                                calls[c].stack[i] = m
                           THEN FreeConnection ELSE conns[m]]
  /\ UNCHANGED <<cfg, jwt, last>>

\* The callback of tx returns: COMMIT, or RELEASE SAVEPOINT.
EndTx(c) ==
  /\ AtStep(c, "end")
  /\ conns' = [conns EXCEPT ![Handle(c)] =
                 IF @.depth = 1 THEN FreeConnection
                 ELSE [@ EXCEPT !.depth = @ - 1]]
  /\ calls' = [calls EXCEPT
                 ![c].stack = SubSeq(@, 1, Len(@) - 1),
                 ![c].pc = @ + 1]
  /\ UNCHANGED <<cfg, db, jwt, last>>

\* The promise of runQuery settles.
Finish(c) ==
  /\ calls[c].pc = Len(runQuery(cfg)) + 1
  /\ calls' = [calls EXCEPT ![c] = Idle]
  /\ UNCHANGED <<cfg, db, jwt, last, conns>>

NextRun ==
  \/ SetJWT
  \/ UnsetJWT
  \/ \E c \in DOMAIN calls :
       \/ Start(c)
       \/ OpenTx(c)
       \/ SetLocal(c)
       \/ SetClaims(c)
       \/ RunQuery(c)
       \/ EndTx(c)
       \/ Finish(c)

SpecRun == InitRun /\ [][NextRun]_vars

(***************************************************************************)
(* The override of runQuery with setJWT / unsetJWT between its steps: the   *)
(* same steps, on the subclass only, each call also holding the jwt of the  *)
(* store at the moment runQuery was called (invoked).                       *)
(***************************************************************************)
IdleCall ==
  [pc |-> 0, stack |-> <<>>, ran |-> None, opened |-> 0,
   invoked |-> "undefined"]

InitJwt ==
  /\ cfg \in {c \in RunConfigs : c.rls}
  /\ db = Seeded(cfg, 1)
  /\ jwt = "undefined"
  /\ last = NoOperation
  /\ calls = [c \in 1..MaxCalls |-> IdleCall]
  /\ conns = FreePool

\* this.runQuery(query) is called while the store holds jwt.
Invoke(c) ==
  /\ calls[c].pc = 0
  /\ \A b \in DOMAIN calls : b < c => calls[b].pc # 0
  /\ calls' = [calls EXCEPT ![c] = [IdleCall EXCEPT !.pc = 1,
                                                    !.invoked = jwt]]
  /\ UNCHANGED <<cfg, db, jwt, last, conns>>

\* The promise of runQuery settles.
Settle(c) ==
  /\ calls[c].pc = Len(runQuery(cfg)) + 1
  /\ calls' = [calls EXCEPT ![c] = IdleCall]
  /\ UNCHANGED <<cfg, db, jwt, last, conns>>

NextJwt ==
  \/ SetJWT
  \/ UnsetJWT
  \/ \E c \in DOMAIN calls :
       \/ Invoke(c)
       \/ OpenTx(c)
       \/ SetLocal(c)
       \/ SetClaims(c)
       \/ RunQuery(c)
       \/ EndTx(c)
       \/ Settle(c)

SpecJwt == InitJwt /\ [][NextJwt]_vars

(***************************************************************************)
(* Construction, provisioning and indexes: the constructor, then            *)
(* ensureTableInDatabase, buildIndex and dropIndex, with writes and a       *)
(* search between them, from an empty database.                             *)
(***************************************************************************)
\* The index names callers use (those of the example and of the tests).
IndexNamesUsed == {"hnsw_index", "test_hnsw_index"}

IndexOpts(m, efConstruction, efSearch) ==
  [m |-> m, efConstruction |-> efConstruction, efSearch |-> efSearch]

\* The options callers build an index with: none, those of the example,
\* and zeros.
IndexOptions ==
  {IndexOpts(None, None, None),
   IndexOpts(Some(16), Some(200), Some(200)),
   IndexOpts(Some(0), Some(0), None)}

\* Before the constructor has run there is no store.
NoStore ==
  [ext |-> [type |-> "undefined", metric |-> "undefined", dims |-> 0],
   useHnswIndex |-> FALSE, rls |-> FALSE]

\* new PGVectorStore(embeddings, {pgExtensionOpts: {type, metric},
\* useHnswIndex}), or new SupabasePGVectorStore(...) when rls; the type is
\* "undefined" when there are no pgExtensionOpts.
NewStore(type, metricOpt, useHnswIndex, rls) ==
  With(IF type = "undefined" THEN NewExtension("pgvector", "undefined")
       ELSE NewExtension(type, metricOpt),
       LAMBDA extension :
         IF ~extension.ok THEN extension
         ELSE Ok([ext |-> extension.val, useHnswIndex |-> useHnswIndex,
                  rls |-> rls]))

InitIndex ==
  /\ cfg = NoStore
  /\ db = EmptyDb
  /\ jwt = "undefined"
  /\ last = NoOperation
  /\ calls = NoCalls
  /\ conns = FreePool

\* The store is constructed: with every metric, allowed or not, run
\* plainly; with the default metric also with useHnswIndex and as the
\* subclass.
Construct ==
  /\ last.op = "none"
  /\ cfg = NoStore
  /\ \E type \in ExtTypes \cup {"undefined"} :
     \E metric \in Metrics \cup {"undefined"} :
     \E h \in BOOLEAN : \E r \in BOOLEAN :
       /\ ~(h /\ r)
       /\ metric \in {"cosine", "undefined"} \/ (~h /\ ~r)
       /\ type = "undefined" => metric = "undefined"
       /\ \E store \in {NewStore(type, metric, h, r)} :
            /\ cfg' = IF store.ok THEN store.val ELSE cfg
            /\ last' = [op |-> "construct", type |-> type, metric |-> metric,
                        ok |-> store.ok, sent |-> <<>>, before |-> db]
  /\ UNCHANGED <<db, jwt, calls, conns>>

EnsureTableInDatabase ==
  /\ last.op = "none"
  /\ cfg # NoStore
  /\ \E r \in {ensureTableInDatabase(cfg, db)} :
       /\ db' = r.db
       /\ last' = [op |-> "ensureTableInDatabase", ok |-> r.ok,
                   sent |-> r.sent, before |-> db]
  /\ UNCHANGED <<cfg, jwt, calls, conns>>

BuildIndex ==
  /\ last.op = "none"
  /\ cfg # NoStore
  /\ \E indexName \in IndexNamesUsed : \E indexOpts \in IndexOptions :
     \E r \in {buildIndex(cfg, db, indexName, indexOpts)} :
       /\ db' = r.db
       /\ last' = [op |-> "buildIndex", indexName |-> indexName,
                   indexOpts |-> indexOpts, ok |-> r.ok, sent |-> r.sent,
                   before |-> db]
  /\ UNCHANGED <<cfg, jwt, calls, conns>>

DropIndex ==
  /\ last.op = "none"
  /\ cfg # NoStore
  /\ \E indexName \in IndexNamesUsed :
     \E r \in {dropIndex(cfg, db, indexName)} :
       /\ db' = r.db
       /\ last' = [op |-> "dropIndex", indexName |-> indexName, ok |-> r.ok,
                   sent |-> r.sent, before |-> db]
  /\ UNCHANGED <<cfg, jwt, calls, conns>>

\* A write between the index operations: the first document, with its
\* extra columns.
AddDocument ==
  /\ last.op = "none"
  /\ cfg # NoStore
  /\ Len(Rows(db)) < MaxRows
  /\ \E r \in {addDocuments(cfg, db, jwt, SubSeq(AllDocs, 1, 1),
                              Some([extraColumns |-> Some(<<Extras(1)>>),
                                    ids |-> None]))} :
       /\ db' = r.db
       /\ last' = [op |-> "addDocuments", documents |-> SubSeq(AllDocs, 1, 1),
                   options |-> Some([extraColumns |-> Some(<<Extras(1)>>),
                                     ids |-> None]),
                   ok |-> r.ok, sent |-> r.sent, before |-> db]
  /\ UNCHANGED <<cfg, jwt, calls, conns>>

\* A search between the index operations: the nearest row, no filter.
SearchNearest ==
  /\ last.op = "none"
  /\ cfg # NoStore
  /\ \E r \in {similaritySearch(cfg, db, jwt, "hello", 1, None)} :
       /\ db' = r.db
       /\ last' = [op |-> "similaritySearch", query |-> Embed("hello"),
                   k |-> 1, filter |-> None, ok |-> r.ok, sent |-> r.sent,
                   outs |-> r.outs, before |-> db]
  /\ UNCHANGED <<cfg, jwt, calls, conns>>

NextIndex ==
  \/ Construct
  \/ EnsureTableInDatabase
  \/ BuildIndex
  \/ DropIndex
  \/ AddDocument
  \/ SearchNearest
  \/ Return

SpecIndex == InitIndex /\ [][NextIndex]_vars

(***************************************************************************)
(* The filter compiler on its own: buildSqlFilterStr is called, as the      *)
(* test of the WHERE clause calls it, with a filter and a mode.             *)
(***************************************************************************)
FilterKeys == {"stuff", "b", PageContentColumn, "some_extra_stuff.type"}

\* The scalars of a filter: strings and numbers, the falsy ones among them,
\* and null.
FilterValues ==
  {Str("hello"), Str("10"), Str(""), Num(1), Num(0), Flt(1, 5), Null}

ComparisonOperators == {"$eq", "$lt", "$lte", "$gt", "$gte", "$not"}

\* A KeyValueFilter of one key: its value given directly, or under one
\* operator.
KeyValueFilters ==
  {<<Entry(key, value)>> : key \in FilterKeys, value \in FilterValues}
    \cup UNION {{<<Entry(key, Obj(<<OpVal(op, value)>>))>> :
                   key \in FilterKeys, value \in FilterValues} :
                  op \in ComparisonOperators}

\* Filters of several entries or operators, and text searches.
CompoundFilters ==
  {<<Entry("stuff", Str("hello")), Entry("b", value)>> :
     value \in FilterValues}
    \cup {<<Entry("b", Obj(<<OpVal("$eq", value)>>)),
            Entry("stuff", Str("hello"))>> : value \in FilterValues}
    \cup {<<Entry("b", Obj(<<OpVal("$gte", value), OpVal("$lte", Num(2))>>))>> :
            value \in FilterValues}
    \cup {<<Entry(PageContentColumn,
                  Obj(<<OpVal("$textSearch",
                              TextSearch("hello", type, "english"))>>))>> :
            type \in {"undefined", "plain", "phrase", "websearch", "fuzzy"}}

\* A LogicalOperator: $and / $or of no filter, of filters that compile to
\* nothing, and of filters that compile to clauses.
LogicalFilters ==
  UNION {{<<Entry(key, Arr(<<>>))>>,
          <<Entry(key, Arr(<<<<>>>>))>>,
          <<Entry(key, Arr(<<<<Entry("b", Obj(<<OpVal("$eq", Num(0))>>))>>>>))>>,
          <<Entry(key, Arr(<<<<Entry("stuff", Str("hello"))>>,
                             <<Entry("b", Obj(<<OpVal("$gt", Num(0))>>))>>>>))>>,
          <<Entry(key, Arr(<<<<Entry("stuff", Str("hello"))>>,
                             <<Entry("b", Num(1))>>>>))>>,
          <<Entry("stuff", Str("hello")), Entry(key, Arr(<<>>))>>,
          <<Entry(key, Arr(<<<<Entry("$or", Arr(<<>>))>>,
                             <<Entry("b", Num(1))>>>>))>>} :
           key \in {"$and", "$or"}}

\* The filter argument of buildSqlFilterStr: absent, the empty object, or
\* one of the filters above.
FilterArguments ==
  {None, Some(<<>>)}
    \cup {Some(f) : f \in KeyValueFilters \cup CompoundFilters
                           \cup LogicalFilters}

InitFilter ==
  /\ cfg = NewStore("pgvector", "undefined", TRUE, FALSE).val
  /\ db = EmptyDb
  /\ jwt = "undefined"
  /\ \E filter \in FilterArguments : \E type \in {"metadata", "column"} :
       last = [op |-> "none", filter |-> filter, type |-> type, ok |-> TRUE,
               val |-> <<>>]
  /\ calls = NoCalls
  /\ conns = FreePool

\* pgVS.buildSqlFilterStr(filter, type): val is the fragment, <<>> for null.
BuildSqlFilterStr ==
  /\ last.op = "none"
  /\ \E built \in {buildSqlFilterStr(last.filter, last.type)} :
       last' = [last EXCEPT !.op = "buildSqlFilterStr", !.ok = built.ok,
                            !.val = IF built.ok THEN built.val ELSE <<>>]
  /\ UNCHANGED <<cfg, db, jwt, calls, conns>>

NextFilter == BuildSqlFilterStr

SpecFilter == InitFilter /\ [][NextFilter]_vars

(***************************************************************************)
(* Properties of the writes (Spec).                                         *)
(***************************************************************************)
IsWrite == last.op \in {"addDocuments", "addVectors"}

\* options.ids, <<>> when there is none.
SuppliedIds(options) ==
  IF options = None THEN <<>>
  ELSE IF options[1].ids = None THEN <<>>
  ELSE options[1].ids[1]

\* The row of documents[i] as the server holds it.
Holds(row, document, embedding) ==
  /\ row[PageContentColumn] = SqlText(document.pageContent.s)
  /\ row["metadata"] = SqlJson(document.metadata)
  /\ row["embedding"] = SqlVec(embedding)

\* C1: after a write that supplied ids, the table holds exactly one row for
\* each supplied id, and that row holds the document written under that id.
C1_UpsertById ==
  (IsWrite /\ last.ok) =>
    \A i \in DOMAIN SuppliedIds(last.options) :
      /\ Cardinality({r \in DOMAIN Rows(db) :
                        Rows(db)[r]["id"]
                          = SqlText(SuppliedIds(last.options)[i])}) = 1
      /\ \A r \in DOMAIN Rows(db) :
           Rows(db)[r]["id"] = SqlText(SuppliedIds(last.options)[i])
             => Rows(db)[r][PageContentColumn]
                  = SqlText(last.documents[i].pageContent.s)

\* C6: an addDocuments without ids that returns leaves the rows that were
\* there, followed by one row for each document of the batch, in order,
\* holding its pageContent, its metadata and the embedding of its
\* pageContent.
C6_RoundTripInsert ==
  (last.op = "addDocuments" /\ last.ok /\ SuppliedIds(last.options) = <<>>) =>
    /\ Len(Rows(db)) = Len(Rows(last.before)) + Len(last.documents)
    /\ SubSeq(Rows(db), 1, Len(Rows(last.before))) = Rows(last.before)
    /\ \A i \in DOMAIN last.documents :
         Holds(Rows(db)[Len(Rows(last.before)) + i], last.documents[i],
               Embed(last.documents[i].pageContent.s))

C6_Witness ==
  /\ last.op = "addDocuments"
  /\ last.ok
  /\ SuppliedIds(last.options) = <<>>
  /\ Len(last.documents) = MaxBatch
  /\ Len(Rows(db)) = MaxBatch

\* Whether the batch leaves the notNull extra column out for some row:
\* the insert names the extra columns of the first row only.
LeavesOutNotNull ==
  /\ Len(last.documents) > 0
  /\ \/ last.options = None
     \/ last.options[1].extraColumns = None
     \/ \E i \in 1..Len(last.documents) :
          last.options[1].extraColumns[1][i] = Null

\* C7: a write that fails stores none of its rows, and a write that leaves
\* a notNull extra column out for one of its rows fails.
C7_FailedBatchStoresNothing ==
  IsWrite =>
    /\ ~last.ok => Rows(db) = Rows(last.before)
    /\ LeavesOutNotNull => ~last.ok

C7_Witness ==
  /\ IsWrite
  /\ ~last.ok
  /\ Len(last.documents) = MaxBatch
  /\ last.options # None
  /\ last.options[1].extraColumns # None
  /\ last.options[1].extraColumns[1][1] # Null
  /\ last.options[1].extraColumns[1][Len(last.documents)] = Null
  /\ Rows(db) = Rows(last.before)
  /\ TableName \in DOMAIN db.tables

\* The entries of options.extraColumns[i] for the declared extra column
\* name.
Supplied(options, i, name) ==
  SelectSeq(options[1].extraColumns[1][i].entries, LAMBDA e : e.key = name)

\* A supplied value as the server holds it in a column.
Stored(value) ==
  IF value.t = "num" THEN SqlNum(value.n, value.frac) ELSE SqlText(value.s)

\* C29: an addVectors of one or more documents and as many vectors whose
\* options.extraColumns gives every row the extra column that is not null
\* returns, and the row stored for each document holds, in each declared
\* extra column, the value supplied for that row, or null when none is.
C29_EveryRowStoresItsExtras ==
  (last.op = "addVectors" /\ Len(last.documents) > 0
     /\ Len(last.vectors) = Len(last.documents)
     /\ last.options # None /\ last.options[1].extraColumns # None
     /\ \A i \in DOMAIN last.documents : \A c \in DOMAIN ExtraColumns :
          ExtraColumns[c].notNull
            => Supplied(last.options, i, ExtraColumns[c].name) # <<>>) =>
    /\ last.ok
    /\ Len(Rows(db)) = Len(Rows(last.before)) + Len(last.documents)
    /\ \A i \in DOMAIN last.documents : \A c \in DOMAIN ExtraColumns :
         Rows(db)[Len(Rows(last.before)) + i][ExtraColumns[c].name]
           = IF Supplied(last.options, i, ExtraColumns[c].name) = <<>>
             THEN SqlNull
             ELSE Stored(Supplied(last.options, i,
                                  ExtraColumns[c].name)[1].val)

(***************************************************************************)
(* Properties of the searches (SpecSearch).                                 *)
(***************************************************************************)
IsSearch ==
  last.op \in {"similaritySearch", "similaritySearchVectorWithScore",
               "maxMarginalRelevanceSearch"}

\* Whether a filter argument carries both kinds of filter.
CarriesBoth(filter) ==
  /\ filter # None
  /\ filter[1].metadataFilter # None
  /\ filter[1].columnFilter # None

\* C2: a similaritySearch or maxMarginalRelevanceSearch with a filter and
\* no join, whatever the keys of the filter, sends one statement and leaves
\* every table as it was.
C2_FilterKeysInert ==
  (last.op \in {"similaritySearch", "maxMarginalRelevanceSearch"}
     /\ FilterField(last.filter, "join") = None) =>
    /\ db = last.before
    /\ \A i \in DOMAIN last.sent :
         LexSql(last.sent[i], 1).ok
           => Len(SplitStatements(LexSql(last.sent[i], 1).val)) = 1

\* C3: a search with a join and no filter, whatever the join's table and
\* sides, sends one statement and leaves every table as it was.
C3_JoinIdentifiersInert ==
  (IsSearch /\ FilterField(last.filter, "join") # None
     /\ ~CarriesBoth(last.filter)) =>
    /\ db = last.before
    /\ \A i \in DOMAIN last.sent :
         LexSql(last.sent[i], 1).ok
           => Len(SplitStatements(LexSql(last.sent[i], 1).val)) = 1

\* The operator that is the distance of the metric.
DistanceOperator(metric) ==
  CASE metric = "cosine" -> "<=>"
    [] metric = "l2" -> "<->"
    [] metric = "inner_product" -> "<#>"
    [] OTHER -> "<~>"

\* How far the stored document with this pageContent is from the query.
Farness(pageContent) ==
  Distance(DistanceOperator(cfg.ext.metric), Embed(pageContent.s), last.query)

\* C4: similaritySearchVectorWithScore without a filter returns min(k, n)
\* of the n stored rows, each at most as far from the query as the next
\* one, and no row that is left out is nearer than a row that is returned.
C4_NearestFirst ==
  (last.op = "similaritySearchVectorWithScore" /\ last.filter = None
     /\ TableName \in DOMAIN last.before.tables) =>
    /\ last.ok
    /\ \A out \in last.outs :
         /\ (Len(out) = last.k \/ Len(out) = Len(Rows(last.before)))
         /\ Len(out) <= last.k
         /\ \A i, j \in DOMAIN out :
              i < j => KeyLeq(Farness(out[i][1].pageContent),
                              Farness(out[j][1].pageContent))
         /\ \A i \in DOMAIN out : \A r \in DOMAIN Rows(last.before) :
              (\A j \in DOMAIN out :
                 out[j][1].pageContent.s
                   # Rows(last.before)[r][PageContentColumn].s)
                => KeyLeq(Farness(out[i][1].pageContent),
                          Farness(Str(Rows(last.before)[r]
                                        [PageContentColumn].s)))

\* The value of a field of a stored row as a JavaScript value: a key of the
\* metadata, or a column.
FieldOf(row, key, mode) ==
  IF mode = "metadata"
  THEN IF key \in DOMAIN row["metadata"].j.m
       THEN row["metadata"].j.m[key] ELSE Undefined
  ELSE IF key \notin DOMAIN row THEN Undefined
  ELSE IF row[key].t = "text" THEN Str(row[key].s)
  ELSE IF row[key].t = "num" THEN Flt(row[key].n, row[key].frac)
  ELSE Undefined

\* The meaning of one comparison.
Meaning(op, a, b) ==
  IF a.t = "num" /\ b.t = "num"
  THEN CASE op = "$eq" -> Tenths(a) = Tenths(b)
         [] op = "$lt" -> Tenths(a) < Tenths(b)
         [] op = "$lte" -> Tenths(a) <= Tenths(b)
         [] op = "$gt" -> Tenths(a) > Tenths(b)
         [] op = "$gte" -> Tenths(a) >= Tenths(b)
         [] OTHER -> Tenths(a) # Tenths(b)
  ELSE IF a.t = "str" /\ b.t = "str"
  THEN CASE op = "$eq" -> a.s = b.s
         [] op = "$lt" -> StrRank(a.s) < StrRank(b.s)
         [] op = "$lte" -> StrRank(a.s) <= StrRank(b.s)
         [] op = "$gt" -> StrRank(a.s) > StrRank(b.s)
         [] op = "$gte" -> StrRank(a.s) >= StrRank(b.s)
         [] OTHER -> a.s # b.s
  ELSE FALSE

RECURSIVE Satisfies(_, _, _)
\* The meaning of a filter on a stored row.
Satisfies(row, filterObj, mode) ==
  \A e \in DOMAIN filterObj :
    LET key == filterObj[e].key
        val == filterObj[e].val
    IN IF key = "$and"
       THEN \A i \in DOMAIN val.items : Satisfies(row, val.items[i], mode)
       ELSE IF key = "$or"
       THEN \E i \in DOMAIN val.items : Satisfies(row, val.items[i], mode)
       ELSE IF val.t = "obj"
       THEN \A o \in DOMAIN val.ops :
              Meaning(val.ops[o].op, FieldOf(row, key, mode), val.ops[o].val)
       ELSE Meaning("$eq", FieldOf(row, key, mode), val)

\* The rows that a filter argument means.
Meant(rows, filter) ==
  {r \in DOMAIN rows :
     \/ filter = None
     \/ /\ filter # None
        /\ IF filter[1].metadataFilter # None
           THEN Satisfies(rows[r], filter[1].metadataFilter[1], "metadata")
           ELSE Satisfies(rows[r], filter[1].columnFilter[1], "column")}

\* C5: a similaritySearch with a filter of the grammar and a limit of at
\* least the size of the table returns exactly the rows that the filter
\* means.
C5_FilterEquivalence ==
  (last.op = "similaritySearch" /\ last.filter \in PlainFilters
     /\ TableName \in DOMAIN last.before.tables
     /\ last.k >= Len(Rows(last.before))) =>
    /\ last.ok
    /\ \A out \in last.outs :
         {out[i].pageContent : i \in DOMAIN out}
           = {Str(Rows(last.before)[r][PageContentColumn].s) :
                r \in Meant(Rows(last.before), last.filter)}

\* C8: a search with both a metadataFilter and a columnFilter throws and
\* sends nothing to the server.
C8_BothFiltersRejected ==
  (IsSearch /\ CarriesBoth(last.filter)) =>
    /\ ~last.ok
    /\ last.sent = <<>>
    /\ db = last.before

C8_Witness ==
  /\ last.op = "maxMarginalRelevanceSearch"
  /\ last.filter \in DoubleFilters
  /\ FilterField(last.filter, "join") = None
  /\ ~last.ok
  /\ last.sent = <<>>
  /\ Len(Rows(db)) = MaxRows

Min(a, b) == IF a <= b THEN a ELSE b

PlainJoin ==
  Filter(None, None,
         Some(Join("some_extra_stuff",
                   <<On("documents.extra_stuff", "some_extra_stuff.id")>>)))

\* The number of rows of the store's table that survive the join and the
\* filter of a filter argument.
Surviving(d, filter) ==
  IF filter = PlainJoin
  THEN Cardinality({<<r, x>> \in (DOMAIN Rows(d))
                                   \X (DOMAIN d.tables["some_extra_stuff"].rows) :
                      Rows(d)[r]["extra_stuff"]
                        = d.tables["some_extra_stuff"].rows[x]["id"]})
  ELSE Cardinality(Meant(Rows(d), filter))

\* C14: similaritySearchVectorWithScore and similaritySearch, with a filter
\* of the grammar or the sound join, return min(k, n) results for the n
\* rows that survive the join and the filter.
C14_ResultCount ==
  (last.op \in {"similaritySearch", "similaritySearchVectorWithScore"}
     /\ last.filter \in PlainFilters \cup {PlainJoin}
     /\ TableName \in DOMAIN last.before.tables) =>
    /\ last.ok
    /\ \A out \in last.outs :
         Len(out) = Min(last.k, Surviving(last.before, last.filter))

\* The filter object of a filter argument and the kind of its keys.
FilterObject(filter) ==
  IF filter[1].metadataFilter # None THEN filter[1].metadataFilter[1]
  ELSE filter[1].columnFilter[1]

FilterKind(filter) ==
  IF filter[1].metadataFilter # None THEN "metadata" ELSE "column"

RECURSIVE Operands(_)
\* The parameters of a filter object in traversal order: for a comparison
\* its key and its value, for a $textSearch config, column, config, query.
Operands(filterObj) ==
  LET ofOp(key, o) ==
        IF o.val.t = "ts"
        THEN LET lang == IF o.val.config = "undefined" THEN "simple"
                         ELSE o.val.config
             IN <<Str(lang), Str(key), Str(lang), Str(o.val.query)>>
        ELSE <<Str(key), o.val>>
      ofEntry(e) ==
        IF LogicalMap(e.key) # "undefined"
        THEN JoinToks([i \in DOMAIN e.val.items |-> Operands(e.val.items[i])],
                      <<>>)
        ELSE IF e.val.t = "obj"
        THEN JoinToks([i \in DOMAIN e.val.ops |-> ofOp(e.key, e.val.ops[i])],
                      <<>>)
        ELSE <<Str(e.key), e.val>>
  IN JoinToks([i \in DOMAIN filterObj |-> ofEntry(filterObj[i])], <<>>)

\* The placeholders "$n" among the tokens of a fragment, in order.
Placeholders(toks) ==
  SelectSeq(toks, LAMBDA tok :
    tok.k = "w" /\ \E n \in 1..Len(toks) : tok.s = "$" \o ToString(n))

\* C18: the fragment that buildSqlFilterStr compiles for the filter of a
\* search holds one placeholder "$n" for each key and each value of the
\* filter, numbered in traversal order, and neither a literal nor the text
\* of a key.
C18_FilterParameterised ==
  (IsSearch /\ last.filter \in PlainFilters /\ last.filter # None) =>
    \E built \in {buildSqlFilterStr(Some(FilterObject(last.filter)),
                                     FilterKind(last.filter))} :
      /\ built.ok
      /\ Placeholders(built.val)
           = [n \in DOMAIN Operands(FilterObject(last.filter)) |->
                W("$" \o ToString(n))]
      /\ \A i \in DOMAIN built.val :
           /\ built.val[i].k = "w"
           /\ \A o \in DOMAIN Operands(FilterObject(last.filter)) :
                Operands(FilterObject(last.filter))[o].t = "str"
                  => built.val[i].s
                       # Operands(FilterObject(last.filter))[o].s

\* Whether the join of a filter argument has a statement whose operator is
\* none of JOIN, LEFT JOIN, RIGHT JOIN, FULL JOIN, CROSS JOIN, INNER JOIN.
HasInvalidJoin(filter) ==
  LET valid == {"JOIN", "LEFT JOIN", "RIGHT JOIN", "FULL JOIN", "CROSS JOIN",
                "INNER JOIN"}
      join == FilterField(filter, "join")
  IN /\ join # None
     /\ IF "items" \in DOMAIN join[1]
        THEN \E i \in DOMAIN join[1].items : join[1].items[i].op \notin valid
        ELSE join[1].op \notin valid

\* C20: a search whose join, or one join of its list of joins, has an
\* operator that is none of the six throws and sends nothing to the
\* server.
C20_InvalidJoinRejected ==
  (IsSearch /\ HasInvalidJoin(last.filter)) =>
    /\ ~last.ok
    /\ last.sent = <<>>
    /\ db = last.before

C20_Witness ==
  /\ last.op = "similaritySearch"
  /\ HasInvalidJoin(last.filter)
  /\ "items" \in DOMAIN FilterField(last.filter, "join")[1]
  /\ ~last.ok
  /\ last.sent = <<>>
  /\ Len(Rows(db)) = MaxRows

\* Whether a filter argument carries a filter object.
HasFilterObject(filter) ==
  /\ filter # None
  /\ (filter[1].metadataFilter # None \/ filter[1].columnFilter # None)

RECURSIVE HasUnknownOperator(_)
\* Whether some entry of a filter object has an operator that is none of
\* $eq, $lt, $lte, $gt, $gte, $not, $textSearch.
HasUnknownOperator(filterObj) ==
  \E e \in DOMAIN filterObj :
    IF filterObj[e].key \in {"$and", "$or"}
    THEN /\ filterObj[e].val.t = "arr"
         /\ \E i \in DOMAIN filterObj[e].val.items :
              HasUnknownOperator(filterObj[e].val.items[i])
    ELSE /\ filterObj[e].val.t = "obj"
         /\ \E o \in DOMAIN filterObj[e].val.ops :
              filterObj[e].val.ops[o].op
                \notin {"$eq", "$lt", "$lte", "$gt", "$gte", "$not",
                         "$textSearch"}

\* C21: a search whose filter has an entry with an operator that is none of
\* $eq, $lt, $lte, $gt, $gte, $not, $textSearch throws and sends nothing to
\* the server.
C21_UnknownOperatorRejected ==
  (IsSearch /\ HasFilterObject(last.filter) /\ ~CarriesBoth(last.filter)
     /\ ~HasInvalidJoin(last.filter)
     /\ HasUnknownOperator(FilterObject(last.filter))) =>
    /\ ~last.ok
    /\ last.sent = <<>>
    /\ db = last.before

\* The documents of a sequence of results of a search.
DocumentsOf(out) ==
  [i \in DOMAIN out |->
     IF last.op = "similaritySearchVectorWithScore" THEN out[i][1]
     ELSE out[i]]

\* The stored rows whose page content is that of a returned document.
StoredAs(doc) ==
  {r \in DOMAIN Rows(last.before) :
     Str(Rows(last.before)[r][PageContentColumn].s) = doc.pageContent}

\* C22: every Document that similaritySearch or
\* similaritySearchVectorWithScore returns carries in its metadata the
\* stored value of each extra column declared returned, and no key for an
\* extra column declared not returned.
C22_ReturnedExtrasExposed ==
  (last.op \in {"similaritySearch", "similaritySearchVectorWithScore"}
     /\ last.ok) =>
    \A out \in last.outs : \A i \in DOMAIN out :
    \A c \in DOMAIN ExtraColumns :
      IF ExtraColumns[c].returned
      THEN /\ ExtraColumns[c].name \in DOMAIN DocumentsOf(out)[i].metadata.m
           /\ \A r \in StoredAs(DocumentsOf(out)[i]) :
                DocumentsOf(out)[i].metadata.m[ExtraColumns[c].name]
                  = FieldOf(Rows(last.before)[r], ExtraColumns[c].name,
                            "column")
      ELSE ExtraColumns[c].name \notin DOMAIN DocumentsOf(out)[i].metadata.m

\* The texts of a search that are its query: those with a FROM.
QueriesOf(sent) ==
  {i \in DOMAIN sent : \E p \in DOMAIN sent[i] : sent[i][p] = W("FROM")}

\* The LIMIT of the query of a search.
LimitOf(search) ==
  IF search.op # "maxMarginalRelevanceSearch" THEN search.k
  ELSE IF search.fetchK = None THEN DefaultFetchK
  ELSE search.fetchK[1]

\* The tokens of a query after "FROM <table>".
AfterFrom(text) ==
  SubSeq(text, 2 + (CHOOSE p \in DOMAIN text : text[p] = W("FROM")),
         Len(text))

BaseColumns ==
  {"id", PageContentColumn, "metadata", "embedding"}
    \cup {ExtraColumns[c].name : c \in DOMAIN ExtraColumns}

\* The tokens of a query before its FROM: the select list and the
\* "_distance" expression.
BeforeFrom(text) ==
  SubSeq(text, 1, (CHOOSE p \in DOMAIN text : text[p] = W("FROM")) - 1)

\* The positions of a token sequence where a column of the store's table
\* is referred to by its bare name (an alias after AS is no reference),
\* and those where it is referred to with the table's name before it.
BareReferences(toks) ==
  {p \in DOMAIN toks :
     /\ \E c \in BaseColumns : toks[p] = W(c)
     /\ p > 1 => toks[p - 1] # W("AS")}

QualifiedReferences(toks) ==
  {p \in DOMAIN toks : \E c \in BaseColumns : toks[p] = W(Qual(TableName, c))}

\* C26: in the query of a search with a join, the select list and the
\* "_distance" expression refer to the columns of the store's table only
\* with the table's name before them; in the query of a search without a
\* join, only by their bare names.
C26_JoinQualifiesColumns ==
  (IsSearch /\ ~CarriesBoth(last.filter)) =>
    \A i \in QueriesOf(last.sent) :
      IF FilterField(last.filter, "join") # None
      THEN /\ BareReferences(BeforeFrom(last.sent[i])) = {}
           /\ QualifiedReferences(BeforeFrom(last.sent[i])) # {}
      ELSE /\ QualifiedReferences(BeforeFrom(last.sent[i])) = {}
           /\ BareReferences(BeforeFrom(last.sent[i])) # {}

\* C28: every Document that maxMarginalRelevanceSearch returns has the
\* pageContent that similaritySearchVectorWithScore, run with the same
\* query, limit and filter, gives for the same stored row, and this is the
\* value of the page-content column of that row.
C28_MmrPageContent ==
  (last.op = "maxMarginalRelevanceSearch" /\ last.ok) =>
    \E s \in {similaritySearchVectorWithScore(cfg, last.before, jwt,
                                               last.query, LimitOf(last),
                                               last.filter)} :
      /\ s.ok
      /\ \A out \in last.outs : \A i \in DOMAIN out :
           /\ \A found \in s.outs : \A j \in DOMAIN found :
                found[j][1].metadata = out[i].metadata
                  => found[j][1].pageContent = out[i].pageContent
           /\ \A r \in DOMAIN Rows(last.before) :
                Rows(last.before)[r]["metadata"].j = out[i].metadata
                  => Str(Rows(last.before)[r][PageContentColumn].s)
                       = out[i].pageContent

(***************************************************************************)
(* Properties of runQuery (SpecRun).                                        *)
(***************************************************************************)
\* The calls whose closure has run.
Ran == {c \in DOMAIN calls : calls[c].ran # None}

\* C9: in the default runQuery, with pg_embedding and useHnswIndex the
\* closure runs in the one transaction the call has opened, after SET LOCAL
\* enable_seqscan = off has been done in it; with pgvector or without
\* useHnswIndex it runs on a connection of the pool, with no transaction
\* opened and the setting untouched.
C9_DefaultRunQuery ==
  ~cfg.rls =>
    \A c \in Ran :
      IF cfg.useHnswIndex /\ cfg.ext.type = "pgembedding"
      THEN /\ calls[c].ran[1].depth = 1
           /\ calls[c].ran[1].seqscan
           /\ calls[c].ran[1].stack = <<calls[c].ran[1].conn>>
           /\ calls[c].opened = 1
      ELSE /\ calls[c].ran[1].depth = 0
           /\ ~calls[c].ran[1].seqscan
           /\ calls[c].ran[1].stack = <<>>
           /\ calls[c].opened = 0

C9_Witness ==
  /\ ~cfg.rls
  /\ cfg.useHnswIndex
  /\ cfg.ext.type = "pgembedding"
  /\ \E c \in Ran : calls[c].ran[1].ok /\ calls[c].ran[1].seqscan
  /\ \E c \in DOMAIN calls : calls[c].pc > 0 /\ c \notin Ran

\* C10: in the override, the closure runs in a transaction of the call in
\* which set_config has been done, the call has opened one top-level
\* transaction, a transaction the wrapper opens is on the connection of
\* that transaction, nested in it, and set_config has been done before the
\* wrapper opens it.
C10_RlsRunQuery ==
  cfg.rls =>
    /\ \A c \in Ran :
         /\ calls[c].ran[1].depth >= 1
         /\ calls[c].ran[1].claims # None
         /\ calls[c].opened = 1
         /\ \A i \in DOMAIN calls[c].ran[1].stack :
              calls[c].ran[1].stack[i] = calls[c].ran[1].conn
         /\ cfg.ext.type = "pgembedding"
              => calls[c].ran[1].depth = 2 /\ calls[c].ran[1].seqscan
    /\ \A c \in DOMAIN calls :
         Len(calls[c].stack) >= 2 =>
           /\ calls[c].stack[2] = calls[c].stack[1]
           /\ conns[calls[c].stack[1]].claims # None

C10_Witness ==
  /\ cfg.rls
  /\ cfg.ext.type = "pgembedding"
  /\ jwt = "alice"
  /\ \E c \in Ran :
       /\ calls[c].ran[1].ok
       /\ calls[c].ran[1].depth = 2
       /\ calls[c].ran[1].claims = Some("alice")
  /\ \E c \in DOMAIN calls : Len(calls[c].stack) = 1

(***************************************************************************)
(* Properties of provisioning and indexes (SpecIndex).                      *)
(***************************************************************************)
\* The statements of a query text (none when the lexer refuses it).
StatementsOf(text) ==
  IF text = <<>> \/ text[1].k = "insert" THEN <<text>>
  ELSE IF LexSql(text, 1).ok THEN SplitStatements(LexSql(text, 1).val)
  ELSE <<>>

\* Whether a query text changes a setting for the session: a SET that is
\* not SET LOCAL.
SetsSession(text) ==
  \E i \in DOMAIN StatementsOf(text) :
    /\ IsW(StatementsOf(text)[i][1], "SET")
    /\ ~IsW(TokAt(StatementsOf(text)[i], 2), "LOCAL")

\* C11: once an operation of the store is over, the connection that it
\* used carries no session setting, and none of the texts that the
\* operation sent changes a setting with a session-level SET.
C11_NoSessionSettings ==
  /\ db.session = {}
  /\ \A i \in DOMAIN last.sent : ~SetsSession(last.sent[i])

\* What the driver sends for a transaction, and the settings of runQuery.
ControlTexts ==
  {Begin, Commit, Rollback, Savepoint, ReleaseSavepoint, RollbackToSavepoint,
   SetLocalSeqscan, SetConfig(Stringify(jwt))}

\* Whether the i-th text sent lies in a transaction that the override of
\* runQuery opened: after its BEGIN and set_config, before its end.
Wrapped(sent, i) ==
  \E b \in 1..(i - 2) :
    /\ sent[b] = Begin
    /\ sent[b + 1] = SetConfig(Stringify(jwt))
    /\ \A e \in (b + 1)..(i - 1) : sent[e] \notin {Commit, Rollback}

\* C12: in the subclass that overrides runQuery, every statement that an
\* operation sends lies in a transaction that runQuery opened; in the
\* store itself without useHnswIndex, no operation opens a transaction.
C12_AllThroughRunQuery ==
  /\ cfg.rls =>
       \A i \in DOMAIN last.sent :
         last.sent[i] \notin ControlTexts => Wrapped(last.sent, i)
  /\ (~cfg.rls /\ ~cfg.useHnswIndex) =>
       \A i \in DOMAIN last.sent : last.sent[i] # Begin

\* The catalogue of a database: its extensions, the columns of its tables
\* and its indexes.
Catalogue(d) ==
  [extensions |-> d.extensions,
   tables |-> [t \in DOMAIN d.tables |-> d.tables[t].cols],
   indexes |-> d.indexes]

\* C15: an ensureTableInDatabase on a database in which the store's table
\* has been provisioned returns and leaves the catalogue and every stored
\* row as they were.
C15_EnsureTableIdempotent ==
  (last.op = "ensureTableInDatabase"
     /\ TableName \in DOMAIN last.before.tables) =>
    /\ last.ok
    /\ Catalogue(db) = Catalogue(last.before)
    /\ \A t \in DOMAIN db.tables :
         db.tables[t].rows = last.before.tables[t].rows

C15_Witness ==
  /\ last.op = "ensureTableInDatabase"
  /\ last.ok
  /\ Len(Rows(last.before)) = MaxRows
  /\ last.before.indexes # {}
  /\ db = last.before

\* C16: a dropIndex of a name that has no index returns and leaves the
\* catalogue as it was.
C16_DropMissingIsNoOp ==
  (last.op = "dropIndex" /\ last.indexName \notin IndexNames(last.before)) =>
    /\ last.ok
    /\ Catalogue(db) = Catalogue(last.before)

\* C17: after a buildIndex that returned, dropIndex of the same name
\* returns and leaves the catalogue that held before the buildIndex.
C17_BuildThenDropRestores ==
  (last.op = "buildIndex" /\ last.ok) =>
    \E r \in {dropIndex(cfg, db, last.indexName)} :
      /\ r.ok
      /\ Catalogue(r.db) = Catalogue(last.before)

\* C19: the constructor fails exactly when the metric, cosine when none is
\* given, is outside the adapter's allowed set (pgvector: cosine, l2,
\* inner_product; pg_embedding: cosine, l2, manhattan); the metric of a
\* constructed store is in the allowed set of its adapter, and its
\* statement builders do not throw.
C19_MetricValidated ==
  LET allowed(type) ==
        IF type = "pgembedding" THEN {"cosine", "l2", "manhattan"}
        ELSE {"cosine", "l2", "inner_product"}
  IN /\ last.op = "construct" =>
          (last.ok <=> (IF last.metric = "undefined" THEN "cosine"
                        ELSE last.metric) \in allowed(last.type))
     /\ cfg # NoStore =>
          /\ cfg.ext.metric \in allowed(cfg.ext.type)
          /\ buildFetchRowsStatement(cfg.ext, <<1, 0>>, TableName, <<>>,
                                     FALSE).ok
          /\ buildHNSWIndexStatement(cfg.ext, "hnsw_index", TableName,
                                     "embedding",
                                     IndexOpts(None, None, None)).ok

C19_Witness ==
  /\ last.op = "construct"
  /\ last.type = "pgvector"
  /\ last.metric = "manhattan"
  /\ ~last.ok
  /\ cfg = NoStore

(***************************************************************************)
(* Properties of the filter compiler (SpecFilter).                          *)
(***************************************************************************)
\* null, 0 and the empty string.
FalsyValues == {Null, Num(0), Str("")}

RECURSIVE WithoutFalsy(_)
\* A filter object without its entries and operators whose value is falsy;
\* an entry none of whose operators is left is left out.
WithoutFalsy(filterObj) ==
  LET clean(e) ==
        IF e.key \in {"$and", "$or"}
        THEN Entry(e.key, Arr([i \in DOMAIN e.val.items |->
                                 WithoutFalsy(e.val.items[i])]))
        ELSE IF e.val.t = "obj"
        THEN Entry(e.key, Obj(SelectSeq(e.val.ops,
                                        LAMBDA o : o.val \notin FalsyValues)))
        ELSE e
      kept(e) ==
        IF e.key \in {"$and", "$or"} THEN TRUE
        ELSE IF e.val.t = "obj"
        THEN \E o \in DOMAIN e.val.ops : e.val.ops[o].val \notin FalsyValues
        ELSE e.val \notin FalsyValues
  IN [i \in DOMAIN SelectSeq(filterObj, kept) |->
        clean(SelectSeq(filterObj, kept)[i])]

\* C23: buildSqlFilterStr compiles a filter as it compiles the filter
\* without its entries and operators whose value is null, 0 or "": when
\* the latter compiles, so does the former, to the same fragment.
C23_FalsyEntriesDropped ==
  (last.op = "buildSqlFilterStr" /\ last.filter # None) =>
    \E clean \in {buildSqlFilterStr(Some(WithoutFalsy(last.filter[1])),
                                     last.type)} :
      clean.ok => (last.ok /\ last.val = clean.val)

\* C25: a fragment that buildSqlFilterStr compiles in column mode holds no
\* metadata accessor and no ::text, ::int or ::float cast, whatever the
\* keys and the values of the filter.
C25_ColumnModeNoCast ==
  (last.op = "buildSqlFilterStr" /\ last.type = "column" /\ last.ok) =>
    \A i \in DOMAIN last.val :
      last.val[i] \notin {W("metadata"), W("->"), W("->>"), W("::text"),
                          W("::int"), W("::float")}

\* C30: buildSqlFilterStr, when it returns, returns null or a fragment that
\* starts with WHERE and in which no "(" is followed at once by ")".
C30_NoEmptyGroup ==
  (last.op = "buildSqlFilterStr" /\ last.ok) =>
    /\ last.val = <<>> \/ last.val[1] = W("WHERE")
    /\ \A i \in DOMAIN last.val :
         (i < Len(last.val) /\ last.val[i] = W("("))
           => last.val[i + 1] # W(")")

(***************************************************************************)
(* Properties of the override with setJWT / unsetJWT (SpecJwt).             *)
(***************************************************************************)
\* C27: in the override, the closure of every call runs with
\* request.jwt.claims set to the jwt that the store held when the call was
\* made, whatever setJWT and unsetJWT have done since.
C27_ClaimsOfInvocation ==
  \A c \in Ran :
    calls[c].ran[1].claims = Some(Stringify(calls[c].invoked))

====
